---- MODULE Spec2Model ----
(***************************************************************************)
(* A model of the memory subsystem of the rustyos kernel:                  *)
(*   - the physical frame allocators (memory/frame/boot.rs, frame/mod.rs), *)
(*   - the page-table wrapper alloc_kpage / free_kpage (memory/mod.rs),    *)
(*   - the full-page virtual allocator (memory/allocator/page.rs),         *)
(*   - the bucketed kernel heap (memory/allocator/mod.rs).                 *)
(*                                                                         *)
(* Addresses are byte addresses.  Option<T> is a record [some, val].       *)
(* A panic of the kernel is the flag `panicked`; a panicked kernel halts.  *)
(***************************************************************************)
EXTENDS Integers, Sequences, FiniteSets, TLC

VARIABLES
    regions,    \* BitmapFrameAllocator.regions: the bootloader's region map
    bitmap,     \* BitmapFrameAllocator.bitmap: the set of its 1 bits, bit b of
                \* word w being the number w * 64 + b
    boot,       \* frames the BootFrameAllocator handed out during initialization
    handed,     \* frames returned by allocate_frame and not deallocated since
    ret,        \* result of the last allocate_frame call
    wasHeld,    \* the frame returned by the last allocate_frame call was in
                \* boot \cup handed when the call was made
    called,     \* the last call was allocate_frame
    refill,     \* Some(f): the previous call was deallocate_frame(f), made
                \* while every usable frame was allocated
    expect,     \* `refill` as it was when the last allocate_frame was called
    frees,      \* number of deallocate_frame calls made so far
    mapped,     \* PAGE_TABLE: the 4 KiB mappings made by alloc_kpage, page -> frame
    ptFrames,   \* PAGE_TABLE: the frames of the page tables that cover the
                \* allocator window
    fpa,        \* PAGE_ALLOCATOR.inner: the descriptor pages in list order, each
                \* [addr, entries]; `next` of a page is its successor, `prev`
                \* its predecessor; << >> is None
    runs,       \* runs handed out by FullPageAllocator::allocate that were not
                \* given back through dealloc_pages: [ptr, size, freed]
    allocs,     \* number of FullPageAllocator::allocate calls made so far
    last,       \* the last call made on the page allocator and its outcome
    buckets,    \* KAllocator.buckets: for every size class 0..8 the chain of
                \* bucket pages, head first, each [page, bitmap, box]; << >>
                \* is None
    live,       \* the allocations KAllocator::allocate returned that were not
                \* deallocated since: [ptr, layout]
    hlast,      \* the last call made on the kernel allocator and its outcome
    mainPc,     \* kmain: index of its next step in Program
    intr,       \* RFLAGS.IF: the CPU accepts interrupts
    saved,      \* the interrupt flag without_interrupts will restore
    isr,        \* the interrupt handler the CPU is running, NoIsr if none:
                \* [kind, pc, eois, late, t0]
    com1Lock,   \* holder of the COM1 spinlock: "free", "main" or "isr"
    lapicLock,  \* holder of the LAPIC spinlock
    pending,    \* interrupts raised at the LAPIC and not yet delivered
    irqOn,      \* interrupt sources that were switched on
    fifo,       \* bytes waiting in the UART receive FIFO
    rx,         \* bytes received on COM1 so far
    ticks,      \* TICKS
    reads,      \* the last two values TICKS.get() returned: [prev, last, n]
    dirCache,   \* DIR_CACHE.entries: key -> [entry, last]
    mounts,     \* MOUNTS.mounts: the mounts in the order made, [fs, dentry]
    flast,      \* the last call made on the directory cache and its outcome
    sb,         \* ramfs: the SuperBlock, [root, count, inodes]
    blockStore, \* ramfs: the block vector behind every inode's `blocks`
    rlast,      \* the last call made on the ramfs and its outcome; `added`
                \* lists, per directory, what the successful calls added
    pathA,      \* the path handed to the path functions
    pathB,      \* the second path handed to join
    pout,       \* the last path function applied and what it returned
    calPc,      \* start_timer: where its calibration stands
    pitCount,   \* the counter of PIT channel 0
    pitOn,      \* PIT channel 0 was armed and counts
    pitLo,      \* the low byte the first port read of get_count returned
    lapicCur,   \* the LAPIC current count read when the window ended (u32)
    loaded,     \* what start_timer computed for the periodic initial count:
                \* [panic, count, overflow]
    lockOp,     \* the operation whose lock events are being replayed
    lockRun,    \* the lock events that operation still has to perform
    held,       \* the spinlocks the execution holds, in the order acquired
    inside,     \* the allocators the execution has entered and not left
    lockBad,    \* "none", or what went wrong: "relock" for an acquire of a
                \* lock already held, "reenter" for a call into an allocator
                \* whose lock is held
    panicked    \* the kernel has panicked

frameVars == <<regions, bitmap, boot, handed, ret, wasHeld, called, refill,
               expect, frees, panicked>>
\* The bookkeeping of direct allocate_frame / deallocate_frame calls.
frameCalls == <<handed, ret, wasHeld, called, refill, expect, frees>>
fpaVars == <<mapped, ptFrames, fpa, runs, allocs, last>>
heapVars == <<buckets, live, hlast>>
irqVars == <<mainPc, intr, saved, isr, com1Lock, lapicLock, pending, irqOn,
             fifo, rx, ticks, reads>>
fsVars == <<dirCache, mounts, flast>>
ramVars == <<sb, blockStore, rlast>>
pathVars == <<pathA, pathB, pout>>
lockVars == <<lockOp, lockRun, held, inside, lockBad>>
timeVars == <<calPc, pitCount, pitOn, pitLo, lapicCur, loaded>>
restVars == <<lockVars, timeVars>>
vars == <<frameVars, fpaVars, heapVars, irqVars, fsVars, ramVars, pathVars,
          restVars>>

-----------------------------------------------------------------------------
(* Bounds of the model *)

\* Frames of the large single-region map (more than one bitmap word).
BigFrames == 66
\* deallocate_frame calls explored per run.
MaxFrees == 1
\* Pages of the allocator window (31 TiB in the kernel).
WindowPages == 4
\* Entries of one descriptor page (ENTRIES_LEN, 170 in the kernel).
ENTRIES_LEN == 2
\* Frames of the region map the page allocator runs on.
FpaFrames == 12
\* Page-allocator calls explored after the frame allocator ran out of frames.
MaxOverruns == 2
\* FullPageAllocator::allocate calls explored per run.
MaxAllocs == 5
\* KAllocator::allocate and deallocate calls explored per run.
MaxHeapCalls == 9
\* Timer interrupts raised per run.
MaxTicks == 3
\* Bytes received on COM1 per run.
MaxBytes == 2
\* kprintln! calls kmain makes after enabling interrupts (6 and one per
\* memory region in the kernel).
NumPrints == 2
\* TICKS.get() calls made by kernel code per run.
MaxReads == 3
\* Entries the directory cache holds before it evicts (CACHE_SIZE, 0x8000
\* over the size of a DEntry in the kernel).
CACHE_SIZE == 3
\* mount_fs calls explored per run.
MaxMounts == 3
\* Characters of the longest path handed to the path functions.
MaxPathLen == 4
\* Characters of the longest second path handed to join.
MaxJoinLen == 2
\* Values of one byte of the PIT counter (256 in the hardware).
PitByte == 4
\* Pages of the largest request whose lock events are followed.
MaxLockPages == 2
\* Descriptor pages one FPAInner call adds or removes at most.
LockDepth == 1
\* Inodes created on the ramfs per run.
MaxInodes == 3
\* Inode operations and write_inode calls explored per run.
MaxRamCalls == 3
\* Directory entries of one ramfs block (BLOCK_SIZE over the size of a
\* DirEntry, 16 in the kernel).
DIR_ENTRIES == 2
\* Timer interrupts between the calls made on the directory cache.
MaxFsTicks == 1

-----------------------------------------------------------------------------
(* Option values and small helpers *)

None == [some |-> FALSE, val |-> 0]
Some(x) == [some |-> TRUE, val |-> x]

Min(S) == CHOOSE x \in S : \A y \in S : x <= y

\* F applied to the value of v, with v computed once.
With(v, F(_)) == CHOOSE y \in {F(x) : x \in {v}} : TRUE

\* u64::div_ceil
div_ceil(a, b) == (a + b - 1) \div b

PAGE_SIZE == 4096
\* u64::BITS, the width of one bitmap word
WORD_BITS == 64
\* u64 words in one 4 KiB bitmap frame: 4096 / size_of::<u64>()
WORDS_PER_FRAME == 512
\* Page tables map_to may have to create below the level-4 table.
TABLE_LEVELS == 3

-----------------------------------------------------------------------------
(* Physical region map (bootloader_api::info::MemoryRegions) *)

Region(s, e, k) == [start |-> s, end |-> e, kind |-> k]

\* One usable region of BigFrames frames.
MapBig == << Region(PAGE_SIZE, PAGE_SIZE + BigFrames * PAGE_SIZE, "Usable") >>
\* Two usable regions (3 and 4 frames) around a reserved hole.
MapSplit == << Region(PAGE_SIZE, 4 * PAGE_SIZE, "Usable"),
               Region(4 * PAGE_SIZE, 8 * PAGE_SIZE, "Reserved"),
               Region(8 * PAGE_SIZE, 12 * PAGE_SIZE, "Usable") >>
\* An E820-style map: the first usable region ends inside a page.
MapRagged == << Region(0, 2 * PAGE_SIZE + 3072, "Usable"),
                Region(2 * PAGE_SIZE + 3072, 4 * PAGE_SIZE, "Reserved"),
                Region(4 * PAGE_SIZE, 9 * PAGE_SIZE, "Usable") >>
\* A usable region that starts inside a page.
MapOffset == << Region(PAGE_SIZE + 2048, 7 * PAGE_SIZE + 2048, "Usable") >>

RegionMaps == {MapBig, MapSplit, MapRagged, MapOffset}

IsUsable(r) == r.kind = "Usable"
usable_regions(rs) == SelectSeq(rs, IsUsable)

-----------------------------------------------------------------------------
(* BootFrameAllocator *)

\* PhysFrame::containing_address
containing_address(addr) == addr - (addr % PAGE_SIZE)

\* (r.start..r.end).step_by(4096) mapped through containing_address
RegionFrames(r) ==
    [i \in 1..div_ceil(IF r.end > r.start THEN r.end - r.start ELSE 0, PAGE_SIZE)
        |-> containing_address(r.start + (i - 1) * PAGE_SIZE)]

RECURSIVE ConcatFrames(_)
ConcatFrames(rs) ==
    IF rs = << >> THEN << >> ELSE RegionFrames(Head(rs)) \o ConcatFrames(Tail(rs))

usable_frames(rs) == ConcatFrames(usable_regions(rs))

\* The frames the first `used` calls of BootFrameAllocator::allocate_frame return.
BootFramesOf(rs, used) == {usable_frames(rs)[i] : i \in 1..used}

-----------------------------------------------------------------------------
(* BitmapFrameAllocator *)

RECURSIVE SumBytes(_)
SumBytes(rs) ==
    IF rs = << >> THEN 0 ELSE (Head(rs).end - Head(rs).start) + SumBytes(Tail(rs))

required_bitmap_size(rs) ==
    div_ceil(div_ceil(SumBytes(usable_regions(rs)), PAGE_SIZE), 8)

bitmap_frames(rs) == div_ceil(required_bitmap_size(rs), PAGE_SIZE)

\* Length of the bitmap slice in u64 words.
BitmapLen(rs) == bitmap_frames(rs) * WORDS_PER_FRAME

\* Frames the boot allocator has handed out when allocate_bitmap marks them:
\* the first frame, the further bitmap frames, and `tables` page-table frames.
BootUsed(rs, tables) ==
    (IF bitmap_frames(rs) > 1 THEN bitmap_frames(rs) ELSE 1) + tables

\* Bit `bit` (0 is the LSB) of word `word` of the bitmap.
Bit(word, bit) == word * WORD_BITS + bit

\* A word of the bitmap: the set of its bits that are 1.
Word(bm, i) == {p % WORD_BITS : p \in {q \in bm : q \div WORD_BITS = i}}

\* u64::leading_ones: the number of 1 bits from bit 63 downwards.
RECURSIVE leading_ones_from(_, _)
leading_ones_from(w, n) ==
    IF n = WORD_BITS \/ (WORD_BITS - 1 - n) \notin w
    THEN n
    ELSE leading_ones_from(w, n + 1)

leading_ones(w) == leading_ones_from(w, 0)

mark_frame_used(bm, frame) ==
    bm \cup { Bit(frame \div WORD_BITS, (WORD_BITS - 1) - (frame % WORD_BITS)) }

mark_frame_free(bm, frame) ==
    bm \ { Bit(frame \div WORD_BITS, (WORD_BITS - 1) - (frame % WORD_BITS)) }

\* The first word that is not 0 decides; its leading ones give the frame.
first_free_frame(bm) ==
    IF bm = {} THEN None
    ELSE LET i == Min({p \div WORD_BITS : p \in bm})
         IN  Some(i * WORD_BITS + leading_ones(Word(bm, i)))

\* Mutant of frame_to_address_in: the index is compared with <= instead of <.
RECURSIVE frame_to_address_offbyone(_, _)
frame_to_address_offbyone(rs, frame) ==
    IF rs = << >> THEN None
    ELSE LET region == Head(rs)
             frames == (region.end - region.start) \div PAGE_SIZE
         IN  IF frame <= frames
             THEN Some(region.start + frame * PAGE_SIZE)
             ELSE frame_to_address_offbyone(Tail(rs), frame - frames)

RECURSIVE frame_to_address_in(_, _)
frame_to_address_in(rs, frame) ==
    IF rs = << >> THEN None
    ELSE LET region == Head(rs)
             frames == (region.end - region.start) \div PAGE_SIZE
         IN  IF frame < frames
             THEN Some(region.start + frame * PAGE_SIZE)
             ELSE frame_to_address_in(Tail(rs), frame - frames)

frame_to_address(rs, frame) == frame_to_address_in(usable_regions(rs), frame)

\* address_to_frame adds (region.start - region.end) / 4096 for every region it
\* passes.  For a non-empty region that u64 subtraction overflows: a debug build
\* panics there, a release build wraps to a frame number of at least 2^51, which
\* indexes far outside the bitmap.  Both outcomes are the value Overflow here.
Overflow == [some |-> TRUE, val |-> -1]

RECURSIVE address_to_frame_in(_, _, _)
address_to_frame_in(rs, addr, frame) ==
    IF rs = << >> THEN None
    ELSE LET region == Head(rs)
         IN  IF addr >= region.start /\ addr < region.end
             THEN IF frame = Overflow.val THEN Overflow
                  ELSE Some(frame + (addr - region.start) \div PAGE_SIZE)
             ELSE address_to_frame_in(Tail(rs), addr,
                     IF frame = Overflow.val \/ region.start < region.end
                     THEN Overflow.val
                     ELSE frame + (region.start - region.end) \div PAGE_SIZE)

address_to_frame(rs, addr) == address_to_frame_in(usable_regions(rs), addr, 0)

\* FrameAllocator::allocate_frame on a bitmap: [bitmap, ret, panic].
\* mark_frame_used indexes the slice (a panic outside it); from_start_address
\* followed by expect panics on an address that is not page aligned.
allocate_frame(rs, bm) ==
    LET frame == first_free_frame(bm)
    IN  IF ~frame.some
        THEN [bitmap |-> bm, ret |-> None, panic |-> FALSE]
        ELSE IF frame.val \div WORD_BITS >= BitmapLen(rs)
        THEN [bitmap |-> bm, ret |-> None, panic |-> TRUE]
        ELSE LET marked == mark_frame_used(bm, frame.val)
                 addr == frame_to_address(rs, frame.val)
             IN  IF ~addr.some
                 THEN [bitmap |-> marked, ret |-> None, panic |-> FALSE]
                 ELSE IF addr.val % PAGE_SIZE # 0
                 THEN [bitmap |-> marked, ret |-> None, panic |-> TRUE]
                 ELSE [bitmap |-> marked, ret |-> addr, panic |-> FALSE]

\* FrameDeallocator::deallocate_frame on a bitmap: [bitmap, panic].
deallocate_frame(rs, bm, addr) ==
    LET frame == address_to_frame(rs, addr)
    IN  IF ~frame.some \/ frame = Overflow
        THEN [bitmap |-> bm, panic |-> TRUE]
        ELSE IF frame.val \div WORD_BITS >= BitmapLen(rs)
        THEN [bitmap |-> bm, panic |-> TRUE]
        ELSE [bitmap |-> mark_frame_free(bm, frame.val), panic |-> FALSE]

\* Number of frames the bitmap indexes: the sum over the usable regions of
\* (end - start) / 4096, as frame_to_address counts them.
RECURSIVE TotalFramesIn(_)
TotalFramesIn(rs) ==
    IF rs = << >> THEN 0
    ELSE (Head(rs).end - Head(rs).start) \div PAGE_SIZE + TotalFramesIn(Tail(rs))

TotalFrames(rs) == TotalFramesIn(usable_regions(rs))

\* Every frame the bitmap indexes has its bit set.
EveryFrameAllocated(rs, bm) ==
    \A f \in 0..(TotalFrames(rs) - 1) :
        Bit(f \div WORD_BITS, (WORD_BITS - 1) - (f % WORD_BITS)) \in bm

\* The bitmap as allocate_bitmap leaves it: zeroed, then frames 0..used-1 marked.
InitialBitmap(used) ==
    { Bit(i \div WORD_BITS, (WORD_BITS - 1) - (i % WORD_BITS)) : i \in 0..(used - 1) }

-----------------------------------------------------------------------------
(* memory/mod.rs: the page-table wrappers.  A machine state m carries what   *)
(* the page allocator's calls read and write: the frame bitmap, the page     *)
(* table (mappings and table frames), the descriptor list and the panic      *)
(* flag.  The allocator window is scaled to WindowPages pages, so one chain  *)
(* of TABLE_LEVELS page tables covers it: map_to allocates the chain with    *)
(* the first mapping and clean_up_addr_range frees it with the last.         *)

align_up(addr, align) == div_ceil(addr, align) * align

ALLOCATOR_START == 32 * PAGE_SIZE
ALLOCATOR_END == ALLOCATOR_START + WindowPages * PAGE_SIZE - 1

Machine == [bitmap |-> bitmap, mapped |-> mapped, tables |-> ptFrames,
            fpa |-> fpa, panic |-> FALSE]

Panic(m) == [m EXCEPT !.panic = TRUE]

\* map_to_with_table_flags: create the missing page tables from the frame
\* allocator (n still to create), Err(FrameAllocationFailed) when it has none.
RECURSIVE create_tables(_, _)
create_tables(m, n) ==
    IF n = 0 THEN [ok |-> TRUE, m |-> m]
    ELSE With(allocate_frame(regions, m.bitmap), LAMBDA r :
         With([m EXCEPT !.bitmap = r.bitmap], LAMBDA m1 :
             IF r.panic THEN [ok |-> FALSE, m |-> Panic(m1)]
             ELSE IF ~r.ret.some THEN [ok |-> FALSE, m |-> m1]
             ELSE With([m1 EXCEPT !.tables = @ \cup {r.ret.val}], LAMBDA m2 :
                      create_tables(m2, n - 1))))

alloc_kpage(m, virt_addr) ==
    With(allocate_frame(regions, m.bitmap), LAMBDA r :
    With([m EXCEPT !.bitmap = r.bitmap], LAMBDA m1 :
        IF r.panic THEN [ok |-> FALSE, m |-> Panic(m1)]
        ELSE IF ~r.ret.some THEN [ok |-> FALSE, m |-> m1]
        ELSE With(create_tables(m1, IF m1.tables = {} THEN TABLE_LEVELS ELSE 0),
                  LAMBDA t :
             \* map_to(...).unwrap(): no frame for a page table, or the page
             \* is already mapped
             IF ~t.ok \/ containing_address(virt_addr) \in DOMAIN t.m.mapped
             THEN [ok |-> FALSE, m |-> Panic(t.m)]
             ELSE [ok |-> TRUE,
                   m |-> [t.m EXCEPT !.mapped =
                            (containing_address(virt_addr) :> r.ret.val) @@ @]])))

\* deallocate_frame for each frame of fs.
RECURSIVE free_frames(_, _)
free_frames(m, fs) ==
    IF fs = {} \/ m.panic THEN m
    ELSE With(Min(fs), LAMBDA f :
         With(deallocate_frame(regions, m.bitmap, f), LAMBDA r :
         With([m EXCEPT !.bitmap = r.bitmap, !.panic = r.panic], LAMBDA m1 :
         With(fs \ {f}, LAMBDA rest : free_frames(m1, rest)))))

free_kpage(m, virt_addr) ==
    With(containing_address(virt_addr), LAMBDA page :
        IF page \notin DOMAIN m.mapped THEN Panic(m)   \* unmap(page).unwrap()
        ELSE With(deallocate_frame(regions, m.bitmap, m.mapped[page]), LAMBDA r :
             With([m EXCEPT !.bitmap = r.bitmap,
                            !.mapped = [q \in DOMAIN m.mapped \ {page} |-> m.mapped[q]],
                            !.panic = r.panic], LAMBDA m1 :
                 \* clean_up_addr_range: free the tables once they are empty
                 IF m1.panic \/ DOMAIN m1.mapped # {} THEN m1
                 ELSE [free_frames(m1, m1.tables) EXCEPT !.tables = {}])))

-----------------------------------------------------------------------------
(* allocator/page.rs: FPAInner, one descriptor page of the free list.  A     *)
(* method on the page `self` takes the machine state and the index k of that *)
(* page in m.fpa; slots are numbered from 1.                                 *)

Empty == [usable |-> FALSE, start |-> 0, pages |-> 0]
Usable(start, pages) == [usable |-> TRUE, start |-> start, pages |-> pages]

NoEntries == [i \in 1..ENTRIES_LEN |-> Empty]
FPAInner(addr, entries) == [addr |-> addr, entries |-> entries]

HasNext(m, k) == k < Len(m.fpa)
SetEntries(m, k, es) == [m EXCEPT !.fpa[k].entries = es]

RECURSIVE find_free_pages_at(_, _, _, _)
find_free_pages_at(fl, k, i, req_pages) ==
    IF i > ENTRIES_LEN
    THEN IF k < Len(fl) THEN find_free_pages_at(fl, k + 1, 1, req_pages)
         ELSE None
    ELSE LET entry == fl[k].entries[i] IN
         IF ~entry.usable THEN None
         ELSE IF entry.pages >= req_pages THEN Some(entry.start)
         ELSE find_free_pages_at(fl, k, i + 1, req_pages)

find_free_pages(fl, k, req_pages) == find_free_pages_at(fl, k, 1, req_pages)

\* The free function remove_entry_page called with Some(page k): walk to the
\* last page, free it, unlink it from its predecessor.  Without a predecessor
\* only the caller's local copy of the pointer is cleared, the list head keeps
\* pointing at the freed, zeroed and unmapped page: the next access faults.
remove_entry_page(m, k) ==
    With(free_kpage(m, m.fpa[Len(m.fpa)].addr), LAMBDA m1 :
        IF m1.panic THEN m1
        ELSE IF Len(m.fpa) > 1
        THEN [m1 EXCEPT !.fpa = SubSeq(m.fpa, 1, Len(m.fpa) - 1)]
        ELSE Panic(m1))

RECURSIVE remove_entry(_, _, _)
remove_entry(m, k, idx) ==
    With(IF HasNext(m, k) THEN remove_entry(m, k + 1, 1)
         ELSE [m |-> m, entry |-> Empty], LAMBDA end :
        IF end.m.panic THEN [m |-> end.m, entry |-> Empty]
        ELSE
        With(end.m.fpa[k].entries, LAMBDA es :
        \* mem::replace(entries[idx], Empty), then
        \* copy_within(idx + 1..ENTRIES_LEN, idx): the last slot keeps its
        \* value unless it is idx itself
        With([j \in 1..ENTRIES_LEN |->
                IF j < idx THEN es[j]
                ELSE IF j < ENTRIES_LEN THEN es[j + 1]
                ELSE IF idx = ENTRIES_LEN THEN Empty
                ELSE es[ENTRIES_LEN]], LAMBDA shifted :
            IF ~HasNext(m, k)
            THEN [m |-> SetEntries(end.m, k, shifted), entry |-> es[idx]]
            ELSE IF ~end.entry.usable
            THEN [m |-> remove_entry_page(SetEntries(end.m, k, shifted), k),
                  entry |-> es[idx]]
            ELSE [m |-> SetEntries(end.m, k,
                           [shifted EXCEPT ![ENTRIES_LEN] = end.entry]),
                  entry |-> es[idx]])))

RECURSIVE alloc_pages_at(_, _, _, _, _)
alloc_pages_at(m, k, i, start, pages) ==
    IF i > ENTRIES_LEN
    THEN IF HasNext(m, k) THEN alloc_pages_at(m, k + 1, 1, start, pages)
         ELSE Panic(m)
    ELSE LET entry == m.fpa[k].entries[i] IN
         IF ~entry.usable THEN m
         ELSE IF entry.start # start THEN alloc_pages_at(m, k, i + 1, start, pages)
         ELSE IF entry.pages = pages THEN remove_entry(m, k, i).m
         ELSE IF entry.pages < pages THEN Panic(m)   \* p - pages overflows
         ELSE SetEntries(m, k, [m.fpa[k].entries EXCEPT ![i] =
                  Usable(start + pages * PAGE_SIZE, entry.pages - pages)])

alloc_pages(m, k, start, pages) == alloc_pages_at(m, k, 1, start, pages)

\* The free function add_entry_page called with None: the first descriptor
\* page.
add_entry_page_first(m) ==
    With(alloc_kpage(m, ALLOCATOR_START), LAMBDA a :
        IF ~a.ok THEN a
        ELSE [ok |-> TRUE,
              m |-> [a.m EXCEPT !.fpa = << FPAInner(ALLOCATOR_START,
                       [NoEntries EXCEPT ![1] =
                          Usable(ALLOCATOR_START + PAGE_SIZE,
                                 (align_up(ALLOCATOR_END, PAGE_SIZE)
                                    - ALLOCATOR_START + PAGE_SIZE) \div PAGE_SIZE)])
                     >>]])

\* FPAInner::add_entry_page, the free function called with Some(page k).
add_entry_page(m, k) ==
    With(find_free_pages(m.fpa, k, 1), LAMBDA free_page :
        IF ~free_page.some THEN [ok |-> FALSE, m |-> m]
        ELSE With(alloc_pages(m, k, free_page.val, 1), LAMBDA m1 :
             IF m1.panic THEN [ok |-> FALSE, m |-> m1]
             ELSE With(alloc_kpage(m1, free_page.val), LAMBDA a :
                  IF ~a.ok THEN a
                  ELSE [ok |-> TRUE,
                        m |-> [a.m EXCEPT !.fpa = SubSeq(a.m.fpa, 1, k)
                                 \o << FPAInner(free_page.val, NoEntries) >>]])))

RECURSIVE insert_entry(_, _, _, _)
insert_entry(m, k, idx, entry) ==
    With(m.fpa[k].entries[ENTRIES_LEN], LAMBDA last_entry :
    With(IF ~last_entry.usable THEN [ok |-> TRUE, m |-> m]
         ELSE IF HasNext(m, k) THEN insert_entry(m, k + 1, 1, last_entry)
         ELSE With(add_entry_page(m, k), LAMBDA page :
                  IF ~page.ok THEN page
                  ELSE insert_entry(page.m, k + 1, 1, last_entry)),
         LAMBDA moved :
        IF ~moved.ok THEN moved
        ELSE With(moved.m.fpa[k].entries, LAMBDA es :
             \* copy_within(idx..ENTRIES_LEN - 1, idx + 1)
             [ok |-> TRUE,
              m |-> SetEntries(moved.m, k,
                      [j \in 1..ENTRIES_LEN |->
                         IF j < idx THEN es[j]
                         ELSE IF j = idx THEN entry
                         ELSE es[j - 1]])])))

RECURSIVE append_entry(_, _, _)
append_entry(m, k, entry) ==
    With({i \in 1..ENTRIES_LEN : ~m.fpa[k].entries[i].usable}, LAMBDA empty :
        IF empty # {}
        THEN [ok |-> TRUE,
              m |-> SetEntries(m, k, [m.fpa[k].entries EXCEPT ![Min(empty)] = entry])]
        ELSE IF HasNext(m, k) THEN append_entry(m, k + 1, entry)
        ELSE With(add_entry_page(m, k), LAMBDA page :
                 IF ~page.ok THEN page ELSE append_entry(page.m, k + 1, entry)))

RECURSIVE squash_entries_at(_, _, _)
squash_entries_at(m, k, i) ==
    IF m.panic THEN m
    ELSE IF i >= ENTRIES_LEN
    THEN IF HasNext(m, k) THEN squash_entries_at(m, k + 1, 1) ELSE m
    ELSE With(m.fpa[k].entries, LAMBDA es :
         IF ~es[i].usable \/ ~es[i + 1].usable THEN m
         ELSE IF es[i].start + es[i].pages * PAGE_SIZE = es[i + 1].start
         THEN With(remove_entry(
                       SetEntries(m, k, [es EXCEPT ![i] =
                           Usable(es[i].start, es[i].pages + es[i + 1].pages)]),
                       k, i + 1).m,
                   LAMBDA m1 : squash_entries_at(m1, k, i))
         ELSE squash_entries_at(m, k, i + 1))

squash_entries(m, k) == squash_entries_at(m, k, 1)

RECURSIVE dealloc_pages_at(_, _, _, _, _)
dealloc_pages_at(m, k, i, start, pages) ==
    IF i > ENTRIES_LEN
    THEN IF HasNext(m, k) THEN dealloc_pages_at(m, k + 1, 1, start, pages)
         ELSE With(append_entry(m, k, Usable(start, pages)), LAMBDA a :
                  IF ~a.ok THEN a
                  ELSE [ok |-> TRUE, m |-> squash_entries(a.m, k)])
    ELSE LET entry == m.fpa[k].entries[i] IN
         IF ~entry.usable THEN [ok |-> TRUE, m |-> m]
         ELSE IF entry.start < start
         THEN dealloc_pages_at(m, k, i + 1, start, pages)
         ELSE IF entry.start = start + pages * PAGE_SIZE
         THEN [ok |-> TRUE,
               m |-> SetEntries(m, k, [m.fpa[k].entries EXCEPT ![i] =
                        Usable(start, entry.pages + pages)])]
         ELSE With(insert_entry(m, k, i, Usable(start, pages)), LAMBDA a :
                  IF ~a.ok THEN a
                  ELSE [ok |-> TRUE, m |-> squash_entries(a.m, k)])

dealloc_pages(m, k, start, pages) == dealloc_pages_at(m, k, 1, start, pages)

-----------------------------------------------------------------------------
(* allocator/page.rs: FullPageAllocator.                                     *)

init_or_get(m) ==
    IF m.fpa = << >> THEN add_entry_page_first(m) ELSE [ok |-> TRUE, m |-> m]

\* for i in 0..num_pages { alloc_kpage(alloc, addr + i * 0x1000)? }
RECURSIVE alloc_kpages(_, _, _, _)
alloc_kpages(m, addr, i, num_pages) ==
    IF i >= num_pages THEN [ok |-> TRUE, m |-> m]
    ELSE With(alloc_kpage(m, addr + i * PAGE_SIZE), LAMBDA a :
             IF ~a.ok THEN a ELSE alloc_kpages(a.m, addr, i + 1, num_pages))

Err(m) == [ok |-> FALSE, ptr |-> 0, m |-> m]

FullPageAllocator_allocate(m, size) ==
    With(div_ceil(size, PAGE_SIZE), LAMBDA num_pages :
    With(init_or_get(m), LAMBDA inner :
        IF ~inner.ok THEN Err(inner.m)
        ELSE With(find_free_pages(inner.m.fpa, 1, num_pages), LAMBDA addr :
             IF ~addr.some THEN Err(inner.m)
             ELSE With(alloc_pages(inner.m, 1, addr.val, num_pages), LAMBDA m1 :
                  IF m1.panic THEN Err(m1)
                  ELSE With(alloc_kpages(m1, addr.val, 0, num_pages), LAMBDA a :
                       IF ~a.ok THEN Err(a.m)
                       ELSE [ok |-> TRUE, ptr |-> addr.val, m |-> a.m])))))

\* for page in pages { free_kpage(alloc, page.start_address()) }
RECURSIVE free_kpages(_, _, _, _)
free_kpages(m, addr, i, num_pages) ==
    IF i >= num_pages \/ m.panic THEN m
    ELSE With(free_kpage(m, addr + i * PAGE_SIZE), LAMBDA m1 :
             free_kpages(m1, addr, i + 1, num_pages))

FullPageAllocator_deallocate(m, ptr, size) ==
    free_kpages(m, containing_address(ptr), 0, div_ceil(size, PAGE_SIZE))

-----------------------------------------------------------------------------
(* allocator/mod.rs: KAllocator and its buckets.  Size class c in 0..8 has   *)
(* blocks of BLOCK(c) bytes and a bitmap of SIZE(c) bytes per bucket page.   *)
(* The head bucket of a class lives in the Buckets tuple, every further one  *)
(* in a Box allocated from PAGE_ALLOCATOR (box is its address, 0 for the     *)
(* head).                                                                    *)

Pow2(n) == 2 ^ n
BLOCK(c) == 8 * Pow2(c)
SIZE(c) == << 64, 32, 16, 8, 4, 2, 1, 1, 1 >>[c + 1]
PAGE_CLASS == 9

NoBuckets == [c \in 0..8 |-> << >>]
NoHeapCall == [op |-> "none", ok |-> FALSE, ptr |-> 0, wasLive |-> FALSE, n |-> 0,
               layout |-> [size |-> 0, align |-> 1],
               phase |-> "allocating", stack |-> << >>]

\* The variant that dispatches on the size alone.
SizeOnly(a, b) == a
Max(a, b) == IF a >= b THEN a ELSE b

\* The arm of `match max` in allocate and deallocate: ranges 0..=8, 9..=16,
\* ..., 1025..=2048, and the fall-back arm.
ClassOf(max) ==
    IF \E c \in 0..8 : max <= BLOCK(c)
    THEN Min({c \in 0..8 : max <= BLOCK(c)})
    ELSE PAGE_CLASS

\* Layout::new::<u8>() and the layout of a Bucket<SIZE, BLOCK>: the page,
\* the bitmap and the boxed next pointer with its allocator reference.
LayoutU8 == [size |-> 1, align |-> 1]
LayoutBucket(c) == [size |-> div_ceil(8 + SIZE(c) + 16, 8) * 8, align |-> 8]

TestBit(byte, bit) == (byte \div Pow2(bit)) % 2 = 1
\* byte |= 1 << bit
SetBit(byte, bit) == IF TestBit(byte, bit) THEN byte ELSE byte + Pow2(bit)
\* The variant that clears the bit counted from the other end of the byte.
ClearBitMirrored(byte, bit) ==
    IF TestBit(byte, 7 - bit) THEN byte - Pow2(7 - bit) ELSE byte
\* byte &= !(1 << bit)
ClearBit(byte, bit) == IF TestBit(byte, bit) THEN byte - Pow2(bit) ELSE byte

RECURSIVE leading_ones_u8_from(_, _)
leading_ones_u8_from(byte, n) ==
    IF n = 8 \/ ~TestBit(byte, 7 - n) THEN n
    ELSE leading_ones_u8_from(byte, n + 1)

leading_ones_u8(byte) == leading_ones_u8_from(byte, 0)

align_down(addr, align) == addr - (addr % align)

Bucket_new(m, c) ==
    With(FullPageAllocator_allocate(m, LayoutU8.size), LAMBDA r :
        IF ~r.ok THEN [ok |-> FALSE, m |-> r.m]
        ELSE [ok |-> TRUE, m |-> r.m,
              bucket |-> [page |-> containing_address(r.ptr),
                          bitmap |-> [i \in 1..SIZE(c) |-> 0],
                          box |-> 0]])

is_empty(bucket) == \A i \in DOMAIN bucket.bitmap : bucket.bitmap[i] = 0

\* Drop of a Box<Bucket>: Bucket::drop gives the page back to
\* PAGE_ALLOCATOR, then the Box gives back its own memory.
drop_box(m, bucket, c) ==
    With(FullPageAllocator_deallocate(m, bucket.page, LayoutU8.size), LAMBDA m1 :
        FullPageAllocator_deallocate(m1, bucket.box, LayoutBucket(c).size))

\* Bucket::allocate_block on bucket j of the chain: [ok, addr, chain, m].
RECURSIVE allocate_block(_, _, _, _)
allocate_block(chain, j, m, c) ==
    \* the bytes the loop does not `continue` over
    With({i \in 1..SIZE(c) :
            /\ chain[j].bitmap[i] # 255
            /\ (i - 1) * 8 + leading_ones_u8(chain[j].bitmap[i])
                 < PAGE_SIZE \div BLOCK(c)}, LAMBDA free :
        IF free # {}
        THEN LET i == Min(free)
                 leading == leading_ones_u8(chain[j].bitmap[i])
                 off == (i - 1) * 8 + leading
             IN  [ok |-> TRUE, addr |-> chain[j].page + off * BLOCK(c),
                  chain |-> [chain EXCEPT ![j].bitmap[i] = SetBit(@, 7 - leading)],
                  m |-> m]
        ELSE IF j < Len(chain) THEN allocate_block(chain, j + 1, m, c)
        ELSE With(Bucket_new(m, c), LAMBDA b :               \* Self::new()?
             IF ~b.ok THEN [ok |-> FALSE, addr |-> 0, chain |-> chain, m |-> b.m]
             ELSE \* Box::new_in: handle_alloc_error when the allocation fails
                  With(FullPageAllocator_allocate(b.m, LayoutBucket(c).size),
                       LAMBDA bx :
                  IF ~bx.ok
                  THEN [ok |-> FALSE, addr |-> 0, chain |-> chain, m |-> Panic(bx.m)]
                  ELSE With(Append(chain, [b.bucket EXCEPT !.box = bx.ptr]),
                            LAMBDA linked :
                            allocate_block(linked, j + 1, bx.m, c)))))

\* Bucket::free_block on bucket j of the chain: [chain, m].
RECURSIVE free_block(_, _, _, _, _)
free_block(chain, j, m, c, addr) ==
    IF align_down(addr, PAGE_SIZE) = chain[j].page
    THEN LET offset == (addr - chain[j].page) \div BLOCK(c) IN
         [chain |-> [chain EXCEPT ![j].bitmap[offset \div 8 + 1] =
                        ClearBit(@, 7 - (offset % 8))],
          m |-> m]
    ELSE IF j < Len(chain)
    THEN With(free_block(chain, j + 1, m, c, addr), LAMBDA r :
             IF ~r.m.panic /\ is_empty(r.chain[j + 1])
             THEN \* self.next = next.next.take()
                  [chain |-> SubSeq(r.chain, 1, j)
                               \o SubSeq(r.chain, j + 2, Len(r.chain)),
                   m |-> drop_box(r.m, r.chain[j + 1], c)]
             ELSE r)
    ELSE [chain |-> chain, m |-> m]

HeapErr(bk, m) == [ok |-> FALSE, ptr |-> 0, buckets |-> bk, m |-> m]

\* KAllocator::allocate: [ok, ptr, buckets, m].
KAllocator_allocate(bk, m, layout) ==
    With(ClassOf(Max(layout.size, layout.align)), LAMBDA c :
        IF c = PAGE_CLASS
        THEN IF layout.align > PAGE_SIZE THEN HeapErr(bk, Panic(m))
             ELSE With(FullPageAllocator_allocate(m, layout.size), LAMBDA r :
                      [ok |-> r.ok, ptr |-> r.ptr, buckets |-> bk, m |-> r.m])
        ELSE IF bk[c] # << >>
        THEN With(allocate_block(bk[c], 1, m, c), LAMBDA r :
                 IF ~r.ok THEN HeapErr(bk, r.m)
                 ELSE [ok |-> TRUE, ptr |-> r.addr,
                       buckets |-> [bk EXCEPT ![c] = r.chain], m |-> r.m])
        ELSE With(Bucket_new(m, c), LAMBDA b :
             IF ~b.ok THEN HeapErr(bk, b.m)
             ELSE With(allocate_block(<< b.bucket >>, 1, b.m, c), LAMBDA r :
                  IF ~r.ok
                  THEN HeapErr(bk, FullPageAllocator_deallocate(
                                       r.m, b.bucket.page, LayoutU8.size))
                  ELSE [ok |-> TRUE, ptr |-> r.addr,
                        buckets |-> [bk EXCEPT ![c] = r.chain], m |-> r.m])))

\* KAllocator::deallocate: [buckets, m].
KAllocator_deallocate(bk, m, ptr, layout) ==
    With(ClassOf(Max(layout.size, layout.align)), LAMBDA c :
        IF c = PAGE_CLASS
        THEN IF layout.align > PAGE_SIZE THEN [buckets |-> bk, m |-> Panic(m)]
             ELSE [buckets |-> bk,
                   m |-> FullPageAllocator_deallocate(m, ptr, layout.size)]
        ELSE IF bk[c] = << >> THEN [buckets |-> bk, m |-> Panic(m)]
        ELSE With(free_block(bk[c], 1, m, c, ptr), LAMBDA r :
                 [buckets |-> [bk EXCEPT ![c] = r.chain], m |-> r.m]))

-----------------------------------------------------------------------------
(* main.rs, trap.rs, time.rs, serial.rs: kmain, the timer and COM1 interrupt *)
(* handlers, the spinlocks they take, and the tick counter, on one CPU.      *)

\* kmain from the first lock it takes to its idle loop.  A kprintln! is the
\* three steps print_lock, print_write, print_unlock.
\* kmain with interrupts::enable() moved in front of time::start_timer().
BootSteps_enable_early ==
    << "init_idt", "memory_init", "boot_allocator", "bitmap_allocator",
       "lapic_lock", "lapic_attach", "lapic_unlock", "ioapic_disable_all",
       "com1_lock", "com1_enable", "com1_unlock",
       "sti",
       "cli", "lapic_lock", "timer_start", "lapic_unlock", "restore" >>
BootSteps ==
    << "init_idt",                                        \* trap::init_idt()
       "memory_init",                                     \* memory::init()
       "boot_allocator", "bitmap_allocator",              \* memory::init_frame_allocator()
       "lapic_lock", "lapic_attach", "lapic_unlock",      \* LAPIC.lock().attach()
       "ioapic_disable_all",                              \* IOAPIC.lock().disable_all()
       "com1_lock", "com1_enable", "com1_unlock",         \* COM1.lock().enable_interrupts()
       "cli", "lapic_lock", "timer_start", "lapic_unlock", "restore",
                                                          \* time::start_timer()
       "sti" >>                                           \* interrupts::enable()
Println == << "print_lock", "print_write", "print_unlock" >>
RECURSIVE Printlns(_)
Printlns(n) == IF n = 0 THEN << >> ELSE Println \o Printlns(n - 1)
Program == BootSteps \o Printlns(NumPrints) \o << "enable_and_hlt" >>

NoIsr == [kind |-> "none", pc |-> "none", eois |-> 0, late |-> FALSE, t0 |-> 0]
\* Entry of an "x86-interrupt" handler through its interrupt gate.
EnterIsr(kind, t) ==
    [kind |-> kind, pc |-> IF kind = "timer" THEN "inc" ELSE "lock",
     eois |-> 0, late |-> FALSE, t0 |-> t]

\* The variant that adds two.
Ticks_inc_twice(t) == t + 2
\* Ticks::inc: fetch_add(1, Relaxed) on the AtomicU64, which wraps at 2^64,
\* beyond every bound of the model.
Ticks_inc(t) == t + 1
\* Ticks::get
Ticks_get(t) == t

\* One effect of a handler other than its EOI: it is late when an EOI was
\* already written.
Effect(h, pc) == [h EXCEPT !.pc = pc, !.late = h.late \/ h.eois > 0]

\* The state kmain is entered in: interrupts disabled, nothing switched on.
IrqEntry ==
    /\ mainPc = 1
    /\ intr = FALSE
    /\ saved = FALSE
    /\ isr = NoIsr
    /\ com1Lock = "free"
    /\ lapicLock = "free"
    /\ pending = {}
    /\ irqOn = {}
    /\ fifo = 0
    /\ rx = 0
    /\ ticks = 0
    /\ reads = [prev |-> 0, last |-> 0, n |-> 0]

-----------------------------------------------------------------------------
(* fs/path: a path is the sequence of its characters; "/" is the separator. *)

SEPERATOR == "/"
\* enum State of a Components iterator, in its derived order.
State == [StartDir |-> 0, Body |-> 1, Done |-> 2]
\* Index of the first / last separator of s, 0 when it has none.
FirstSep(s) ==
    IF \E i \in 1..Len(s) : s[i] = SEPERATOR
    THEN Min({i \in 1..Len(s) : s[i] = SEPERATOR}) ELSE 0
LastSep(s) ==
    IF \E i \in 1..Len(s) : s[i] = SEPERATOR
    THEN CHOOSE i \in 1..Len(s) :
             /\ s[i] = SEPERATOR
             /\ \A j \in (i + 1)..Len(s) : s[j] # SEPERATOR
    ELSE 0

\* Component values; kind "None" is Option::None.
NoComp == [kind |-> "None", s |-> << >>]
Comp(kind) == [kind |-> kind, s |-> << >>]
Normal(s) == [kind |-> "Normal", s |-> s]

\* parse_single_component with CurDir for a `.` segment
parse_single_component_dot(comp) ==
    IF comp = << >> THEN NoComp
    ELSE IF comp = << "." >> THEN Comp("CurDir")
    ELSE IF comp = << ".", "." >> THEN Comp("ParentDir")
    ELSE Normal(comp)

\* parse_single_component
parse_single_component(comp) ==
    IF comp \in {<< "." >>, << >>} THEN NoComp
    ELSE IF comp = << ".", "." >> THEN Comp("ParentDir")
    ELSE Normal(comp)

\* Components::new, with has_physical_root
Components_new(path) ==
    [path |-> path,
     has_physical_root |-> path # << >> /\ path[1] = SEPERATOR,
     front |-> State.StartDir, back |-> State.Body]

\* Components::finished
finished(c) ==
    c.front = State.Done \/ c.back = State.Done \/ c.front > c.back

\* Components::include_cur_dir
include_cur_dir(c) ==
    IF c.has_physical_root THEN FALSE
    ELSE \/ Len(c.path) = 1 /\ c.path[1] = "."
         \/ Len(c.path) >= 2 /\ c.path[1] = "." /\ c.path[2] = SEPERATOR

\* Components::len_before_body
len_before_body(c) ==
    (IF c.front <= State.StartDir /\ c.has_physical_root THEN 1 ELSE 0)
    + (IF c.front <= State.StartDir /\ include_cur_dir(c) THEN 1 ELSE 0)

\* Components::parse_next_component: [size, comp]
parse_next_component(c) ==
    LET i == FirstSep(c.path)
    IN  IF i = 0
        THEN [size |-> Len(c.path), comp |-> parse_single_component(c.path)]
        ELSE [size |-> i,
              comp |-> parse_single_component(SubSeq(c.path, 1, i - 1))]

\* Components::parse_next_component_back: [size, comp]
parse_next_component_back(c) ==
    LET body == SubSeq(c.path, len_before_body(c) + 1, Len(c.path))
        i == LastSep(body)
    IN  IF i = 0
        THEN [size |-> Len(body), comp |-> parse_single_component(body)]
        ELSE [size |-> Len(body) - i + 1,
              comp |-> parse_single_component(SubSeq(body, i + 1, Len(body)))]

\* Components::trim_left
RECURSIVE trim_left(_)
trim_left(c) ==
    IF c.path = << >> THEN c
    ELSE LET r == parse_next_component(c)
         IN  IF r.comp # NoComp THEN c
             ELSE trim_left([c EXCEPT
                      !.path = SubSeq(c.path, r.size + 1, Len(c.path))])

\* Components::trim_right that trims nothing
trim_right_none(c) == c

\* Components::trim_right
RECURSIVE trim_right(_)
trim_right(c) ==
    IF Len(c.path) <= len_before_body(c) THEN c
    ELSE LET r == parse_next_component_back(c)
         IN  IF r.comp # NoComp THEN c
             ELSE trim_right([c EXCEPT
                      !.path = SubSeq(c.path, 1, Len(c.path) - r.size)])

\* Components::as_path
as_path(c) ==
    LET l == IF c.front = State.Body THEN trim_left(c) ELSE c
        r == IF l.back = State.Body THEN trim_right(l) ELSE l
    IN  r.path

\* Iterator::next of Components: [c, item]
RECURSIVE Components_next(_)
Components_next(c) ==
    IF finished(c) THEN [c |-> c, item |-> NoComp]
    ELSE IF c.front = State.StartDir
    THEN LET b == [c EXCEPT !.front = State.Body]
         IN  IF c.has_physical_root
             THEN [c |-> [b EXCEPT !.path = Tail(c.path)],
                   item |-> Comp("RootDir")]
             ELSE IF include_cur_dir(b)
             THEN [c |-> [b EXCEPT !.path = Tail(c.path)],
                   item |-> Comp("CurDir")]
             ELSE Components_next(b)
    ELSE IF c.path # << >>
    THEN LET r == parse_next_component(c)
             n == [c EXCEPT !.path = SubSeq(c.path, r.size + 1, Len(c.path))]
         IN  IF r.comp # NoComp THEN [c |-> n, item |-> r.comp]
             ELSE Components_next(n)
    ELSE Components_next([c EXCEPT !.front = State.Done])

\* DoubleEndedIterator::next_back of Components: [c, item]
RECURSIVE Components_next_back(_)
Components_next_back(c) ==
    IF finished(c) THEN [c |-> c, item |-> NoComp]
    ELSE IF c.back = State.Body
    THEN IF Len(c.path) > len_before_body(c)
         THEN LET r == parse_next_component_back(c)
                  n == [c EXCEPT
                           !.path = SubSeq(c.path, 1, Len(c.path) - r.size)]
              IN  IF r.comp # NoComp THEN [c |-> n, item |-> r.comp]
                  ELSE Components_next_back(n)
         ELSE Components_next_back([c EXCEPT !.back = State.StartDir])
    ELSE LET d == [c EXCEPT !.back = State.Done]
         IN  IF c.has_physical_root
             THEN [c |-> [d EXCEPT !.path = SubSeq(c.path, 1, Len(c.path) - 1)],
                   item |-> Comp("RootDir")]
             ELSE IF include_cur_dir(d)
             THEN [c |-> [d EXCEPT !.path = SubSeq(c.path, 1, Len(c.path) - 1)],
                   item |-> Comp("CurDir")]
             ELSE Components_next_back(d)

\* The components an iterator still yields, in order.
RECURSIVE Collect(_)
Collect(c) ==
    LET r == Components_next(c)
    IN  IF r.item = NoComp THEN << >> ELSE << r.item >> \o Collect(r.c)

\* The components an iterator still yields with rev(), last first.
RECURSIVE CollectBack(_)
CollectBack(c) ==
    LET r == Components_next_back(c)
    IN  IF r.item = NoComp THEN << >> ELSE << r.item >> \o CollectBack(r.c)

\* AsRef<Path> for Component
Component_as_ref(comp) ==
    IF comp.kind = "RootDir" THEN << SEPERATOR >>
    ELSE IF comp.kind = "CurDir" THEN << "." >>
    ELSE IF comp.kind = "ParentDir" THEN << ".", "." >>
    ELSE comp.s

\* Path::parent: None, or Some(path)
Path_parent(path) ==
    LET r == Components_next_back(Components_new(path))
    IN  IF r.item.kind \in {"CurDir", "ParentDir", "Normal"}
        THEN Some(as_path(r.c)) ELSE None

\* Path::ancestors: the path, its parent, the parent of that, ...
RECURSIVE Ancestors(_)
Ancestors(path) ==
    LET p == Path_parent(path)
    IN  << path >> \o (IF p.some THEN Ancestors(p.val) ELSE << >>)

\* iter_after: None, or Some(the iterator after the prefix)
RECURSIVE iter_after(_, _)
iter_after(iter, prefix) ==
    LET x == Components_next(iter)
        y == Components_next(prefix)
    IN  IF x.item # NoComp /\ y.item # NoComp /\ x.item = y.item
        THEN iter_after(x.c, y.c)
        ELSE IF y.item # NoComp THEN None
        ELSE Some(iter)

\* Path::strip_prefix(base).unwrap().components(): the iterator over what is
\* left of the path; the unwrap panics on None.
strip_prefix(path, base) ==
    LET r == iter_after(Components_new(path), Components_new(base))
    IN  IF r.some THEN Some(Components_new(as_path(r.val))) ELSE None

\* Path::file_name: None, or Some(name)
Path_file_name(path) ==
    LET r == Components_next_back(Components_new(path))
    IN  IF r.item.kind = "Normal" THEN Some(r.item.s) ELSE None

\* Path::strip_prefix: None for Err(StripPrefixError), or Some(path)
Path_strip_prefix(path, base) ==
    LET r == iter_after(Components_new(path), Components_new(base))
    IN  IF r.some THEN Some(as_path(r.val)) ELSE None

\* PathBuf::_push: need_sep is true when the last character IS a separator.
PathBuf_push(self, path) ==
    LET need_sep == self # << >> /\ self[Len(self)] = SEPERATOR
        is_absolute == path # << >> /\ path[1] = SEPERATOR
    IN  IF is_absolute THEN path
        ELSE IF need_sep THEN self \o << SEPERATOR >> \o path
        ELSE self \o path

\* Path::join
Path_join(self, path) == PathBuf_push(self, path)

-----------------------------------------------------------------------------
(* fs/dentry.rs, fs/mod.rs: the directory cache and the mount table.  A     *)
(* DEntry is [name, inode, fs]; the cache maps a key to [entry, last].      *)

\* SuperBlock.inodes of the mounted ramfs: inode 0 is the root directory
\* holding a/ and c, and a/ holds b.  Directory contents are built by
\* mkdir and create, which never touch the cache.
Inodes ==
    [n \in 0..3 |->
        IF n = 0 THEN [dir |-> TRUE,
                       list |-> << [name |-> << "a" >>, inode |-> 1],
                                   [name |-> << "c" >>, inode |-> 2] >>]
        ELSE IF n = 1 THEN [dir |-> TRUE,
                            list |-> << [name |-> << "b" >>, inode |-> 3] >>]
        ELSE [dir |-> FALSE, list |-> << >>]]

\* DEntry::new
DEntry_new(name, inode, fs) == [name |-> name, inode |-> inode, fs |-> fs]
EmptyCache == [k \in {} |-> 0]
FsOk(entry) == [ok |-> TRUE, entry |-> entry, err |-> "none"]
FsErr(err) ==
    [ok |-> FALSE, entry |-> DEntry_new(<< >>, 0, 0), err |-> err]

\* The variant that pins no path.
is_mount_path_never(ms, path) == FALSE
\* Mounts::is_mount_path
is_mount_path(ms, path) == \E i \in 1..Len(ms) : ms[i].dentry.name = path

\* The variant that picks a most recently used entry.
IsMru(es, cand, k) == \A j \in cand : es[k].last >= es[j].last
\* The scan of evict_entry can end on k: no candidate is older.  Which of the
\* oldest it ends on is the iteration order of the HashMap.
IsLru(es, cand, k) == \A j \in cand : es[k].last <= es[j].last

\* The variant that removes nothing.
evict_nothing(es, ms) == {es}
\* evict_entry: the caches it can leave.  A last_access of u64::MAX, which
\* the scan would pass over, is beyond every bound of the model.
evict_entry(es, ms) ==
    LET cand == {k \in DOMAIN es : ~is_mount_path(ms, k)}
    IN  IF cand = {} THEN {es}
        ELSE {[j \in DOMAIN es \ {k} |-> es[j]] : k \in {c \in cand : IsLru(es, cand, c)}}

\* The variant that files the entry under its name without the first
\* character.
KeyTail(entry) == Tail(entry.name)
\* The key insert_entry files an entry under: entry.name().to_path_buf()
KeyOf(entry) == entry.name

\* insert_entry at tick t: the [entries, log] it can leave; log gains the
\* cache the call found and the keys its eviction removed.
cache_insert_entry(es, ms, entry, t, log) ==
    { [entries |-> [k \in DOMAIN e2 \cup {KeyOf(entry)} |->
                       IF k = KeyOf(entry) THEN [entry |-> entry, last |-> t]
                       ELSE e2[k]],
       log |-> Append(log, [before |-> es,
                            evicted |-> DOMAIN es \ DOMAIN e2])]
      : e2 \in IF Cardinality(DOMAIN es) >= CACHE_SIZE
               THEN evict_entry(es, ms) ELSE {es} }

\* fill_path: the [entries, log, res] it can end with.
RECURSIVE fill_path(_, _, _, _, _, _, _)
fill_path(cache, ms, parent, pdentry, comps, t, log) ==
    IF comps = << >>
    THEN {[entries |-> cache, log |-> log, res |-> FsOk(pdentry)]}
    ELSE LET inode == Inodes[pdentry.inode]
             hits == {i \in 1..Len(inode.list) :
                         Component_as_ref(Head(comps)) = inode.list[i].name}
         IN  IF ~inode.dir /\ Len(comps) > 1
             THEN {[entries |-> cache, log |-> log, res |-> FsErr("NoEntry")]}
             ELSE IF ~inode.dir
             THEN {[entries |-> cache, log |-> log,
                    res |-> FsErr("NotDirectory")]}
             ELSE IF hits = {}
             THEN {[entries |-> cache, log |-> log, res |-> FsErr("NoEntry")]}
             ELSE LET found == inode.list[Min(hits)]
                      new_path == PathBuf_push(parent, found.name)
                      entry == DEntry_new(new_path, found.inode, pdentry.fs)
                  IN  UNION { fill_path(o.entries, ms, new_path, entry,
                                        Tail(comps), t, o.log)
                              : o \in cache_insert_entry(cache, ms, entry,
                                                         t, log) }

\* get_opt on a hit: the entry is stamped with TICKS.get().
get_opt(es, path, t) == [es EXCEPT ![path].last = t]

\* DirectoryCache::_get at tick t: the [entries, log, res, panic] it can end
\* with.
DirectoryCache_get(es, ms, path, t) ==
    IF path \in DOMAIN es
    THEN {[entries |-> get_opt(es, path, t), log |-> << >>,
           res |-> FsOk(es[path].entry), panic |-> FALSE]}
    ELSE LET anc == Ancestors(path)
             hits == {i \in 1..Len(anc) : anc[i] \in DOMAIN es}
         IN  IF hits = {}
             THEN {[entries |-> es, log |-> << >>, res |-> FsErr("panic"),
                    panic |-> TRUE]}
             ELSE LET parent == anc[Min(hits)]
                      remaining == strip_prefix(path, parent)
                  IN  IF ~remaining.some
                      THEN {[entries |-> get_opt(es, parent, t),
                             log |-> << >>, res |-> FsErr("panic"),
                             panic |-> TRUE]}
                      ELSE { [entries |-> o.entries, log |-> o.log,
                              res |-> o.res, panic |-> FALSE]
                             : o \in fill_path(get_opt(es, parent, t), ms,
                                               parent, es[parent].entry,
                                               Collect(remaining.val), t,
                                               << >>) }

\* Mounts::mount_fs at tick t: the [mounts, entries, log] it can leave.  The
\* mount joins the table before DIR_CACHE.mount inserts its dentry.
mount_fs(es, ms, dest, fs, t) ==
    LET dentry == IF dest.some THEN dest.val
                  ELSE DEntry_new(<< SEPERATOR >>, 0, fs)
        table == Append(ms, [fs |-> fs, dentry |-> dentry])
    IN  { [mounts |-> table, entries |-> o.entries, log |-> o.log]
          : o \in cache_insert_entry(es, table, dentry, t, << >>) }

\* No call has been made on the directory cache.
NoFsCall == [op |-> "none", path |-> << >>, res |-> FsErr("none"),
             log |-> << >>, before |-> EmptyCache]

\* The cache and the mount table as constructed: both empty.
FsEntry ==
    /\ dirCache = EmptyCache
    /\ mounts = << >>
    /\ flast = NoFsCall

-----------------------------------------------------------------------------
(* fs/ramfs: the superblock, the inodes and their directory blocks.  An     *)
(* inode value is [num, mode, blocks]; blocks names the shared              *)
(* Arc<RwLock<Vec<block>>>, whose contents are blockStore[blocks].  A clone *)
(* of an inode shares its blocks.  Times and permissions, which no claim    *)
(* reads, are left out.                                                      *)

EmptySlot == [inode |-> 0, length |-> 0, name |-> << >>]
\* Box::new([0u8; BLOCK_SIZE]) with `entry` copied into its first slot.
NewBlock(entry) ==
    [i \in 1..DIR_ENTRIES |-> IF i = 1 THEN entry ELSE EmptySlot]

\* InodeOps::append_dir_entry on the block vector: the first slot whose inode
\* field is 0, searching the blocks last to first, or else a new block.
append_dir_entry(blocks, entry) ==
    LET free == {bi \in (1..Len(blocks)) \X (1..DIR_ENTRIES) :
                    blocks[bi[1]][bi[2]].inode = 0}
    IN  IF free = {} THEN Append(blocks, NewBlock(entry))
        ELSE LET bi == CHOOSE x \in free :
                          \A y \in free :
                              x[1] > y[1] \/ (x[1] = y[1] /\ x[2] <= y[2])
             IN  [blocks EXCEPT ![bi[1]][bi[2]] = entry]

\* DirIterator::next to exhaustion: the (name, inode) of every slot from
\* block b, slot i on whose inode and length are both non-zero.
RECURSIVE DirIterator(_, _, _)
DirIterator(blocks, b, i) ==
    IF b > Len(blocks) THEN << >>
    ELSE IF i > DIR_ENTRIES THEN DirIterator(blocks, b + 1, 1)
    ELSE IF blocks[b][i].inode = 0 \/ blocks[b][i].length = 0
    THEN DirIterator(blocks, b, i + 1)
    ELSE << [name |-> blocks[b][i].name, inode |-> blocks[b][i].inode] >>
         \o DirIterator(blocks, b, i + 1)

\* InodeOps::list: [err, list]
InodeOps_list(inode, store) ==
    IF inode.mode # "DIRECTORY" THEN [err |-> "NotDirectory", list |-> << >>]
    ELSE [err |-> "none", list |-> DirIterator(store[inode.blocks], 1, 1)]

\* InodeOps::add_dir_entry: [err, store]
add_dir_entry(dst, parent, comp, store) ==
    IF comp.kind # "Normal" THEN [err |-> "BadPath", store |-> store]
    ELSE IF parent.mode # "DIRECTORY"
    THEN [err |-> "NotDirectory", store |-> store]
    ELSE IF \E i \in 1..Len(InodeOps_list(parent, store).list) :
                InodeOps_list(parent, store).list[i].name = comp.s
    THEN [err |-> "Exists", store |-> store]
    ELSE [err |-> "none",
          store |-> [store EXCEPT ![parent.blocks] =
                        append_dir_entry(@, [inode |-> dst.num,
                                             length |-> Len(comp.s) % 256,
                                             name |-> comp.s])]]

\* The block symlink pushes onto the blocks of dst: the bytes of a target
\* shorter than 9 bytes read as a slot with a non-zero inode field and length
\* 0, followed by empty slots.
SymlinkBlock == NewBlock([inode |-> -1, length |-> 0, name |-> << >>])

\* InodeOps::create, link, symlink and mkdir: [err, dst, store].  dst is the
\* inode value the caller holds afterwards; long says that the target of a
\* symlink is longer than BLOCK_SIZE.
inode_op(kind, dst, parent, comp, long, store) ==
    LET r == add_dir_entry(dst, parent, comp, store)
        mode == IF kind = "create" THEN "REGULAR_FILE"
                ELSE IF kind = "mkdir" THEN "DIRECTORY"
                ELSE IF kind = "symlink" THEN "SYMBOLIC_LINK"
                ELSE dst.mode
        d == [dst EXCEPT !.mode = mode]
    IN  IF r.err # "none" THEN [err |-> r.err, dst |-> dst, store |-> store]
        ELSE IF kind = "symlink" /\ long
        THEN [err |-> "BadPath", dst |-> d, store |-> r.store]
        ELSE IF kind = "symlink"
        THEN [err |-> "none", dst |-> d,
              store |-> [r.store EXCEPT ![d.blocks] = Append(@, SymlinkBlock)]]
        ELSE [err |-> "none", dst |-> d, store |-> r.store]

\* FileSystem::new: the superblock before init_super.
NewSuperBlock == [root |-> 0, count |-> 0, inodes |-> << >>]
\* SuperBlock::create_inode with Inode::default(): [sb, store]; the new
\* inode has the number sb.count.
create_inode(s, store) ==
    [sb |-> [s EXCEPT !.count = s.count + 1,
                      !.inodes = [n \in 0..s.count |->
                                     IF n = s.count
                                     THEN [num |-> n, mode |-> "NONE",
                                           blocks |-> n]
                                     ELSE s.inodes[n]]],
     store |-> [n \in 0..s.count |->
                   IF n = s.count THEN << >> ELSE store[n]]]
\* FileSystem::init_super: [sb, store]
init_super(s, store) ==
    LET r == create_inode(s, store)
    IN  [sb |-> [r.sb EXCEPT !.root = s.count,
                             !.inodes[s.count].mode = "DIRECTORY"],
         store |-> r.store]
\* SuperBlock::get_inode: a clone of the stored inode.
get_inode(s, n) == s.inodes[n]
\* SuperBlock::write_inode: [err, sb]
write_inode(s, inode) ==
    IF inode.num \in DOMAIN s.inodes
    THEN [err |-> "none", sb |-> [s EXCEPT !.inodes[inode.num] = inode]]
    ELSE [err |-> "MissingInode", sb |-> s]

\* No call has been made on the ramfs.
NoRamCall == [op |-> "none", err |-> "none",
              dst |-> [num |-> 0, mode |-> "NONE", blocks |-> 0],
              parent |-> 0, comp |-> NoComp, long |-> FALSE,
              mounted |-> FALSE, n |-> 0, before |-> << >>,
              added |-> << >>]
\* The ramfs as FileSystem::new leaves it.
RamEntry ==
    /\ sb = NewSuperBlock
    /\ blockStore = << >>
    /\ rlast = NoRamCall

\* No path was handed to the path functions.
NoPathCall == [op |-> "none", res |-> << >>]
PathEntry ==
    /\ pathA = << >>
    /\ pathB = << >>
    /\ pout = NoPathCall

-----------------------------------------------------------------------------
(* The spinlocks of the memory subsystem.  A function is the set of its     *)
(* runs: the lock events it performs in order -- acquire and release of a   *)
(* lock, entry into and return from an allocator -- and whether it returned *)
(* Ok.  A guard is released when its scope ends, on the Ok and on the `?`   *)
(* path alike.  debug is cfg!(debug_assertions).                             *)

Locks == {"HEAP", "FPA", "FRAME_ALLOCATOR", "PAGE_TABLE", "COM1"}
Acq(l) == [e |-> "acq", x |-> l]
Rel(l) == [e |-> "rel", x |-> l]
Run(ev, ok) == [ev |-> ev, ok |-> ok]
Returns == {Run(<< >>, TRUE)}
Fails == {Run(<< >>, FALSE)}
\* a; b with `?` on a: b runs only when a returned Ok.
Then(A, B) ==
    {Run(a.ev \o b.ev, b.ok) : a \in {x \in A : x.ok}, b \in B}
    \cup {x \in A : ~x.ok}
\* { let guard = l.lock(); a }
Guarded(l, A) == {Run(<< Acq(l) >> \o a.ev \o << Rel(l) >>, a.ok) : a \in A}
\* A call into the allocator `who` and its return.
Entered(who, A) ==
    {Run(<< [e |-> "enter", x |-> who] >> \o a.ev
         \o << [e |-> "leave", x |-> who] >>, a.ok) : a \in A}
\* n times a, with `?` on each.
RECURSIVE Times(_, _)
Times(A, n) == IF n = 0 THEN Returns ELSE Then(A, Times(A, n - 1))
\* Between 0 and n times a.
UpTo(A, n) == UNION {Times(A, k) : k \in 0..n}

\* kprintln! under cfg!(debug_assertions)
debug_println(debug) == IF debug THEN Guarded("COM1", Returns) ELSE Returns

\* alloc_kpage locking FRAME_ALLOCATOR itself instead of taking the
\* allocator from its caller.
alloc_kpage_relock(debug) ==
    Fails \cup Guarded("FRAME_ALLOCATOR", Guarded("PAGE_TABLE", Returns))

\* memory::alloc_kpage: no frame, or the page table locked for map_to.
alloc_kpage_locks(debug) ==
    Fails \cup Then(debug_println(debug), Guarded("PAGE_TABLE", Returns))
\* memory::free_kpage: the page table locked to the end of the function.
free_kpage_locks(debug) == Guarded("PAGE_TABLE", debug_println(debug))

\* page.rs remove_entry_page
remove_entry_page_locks(debug) ==
    Guarded("FRAME_ALLOCATOR", free_kpage_locks(debug))
\* FPAInner::alloc_pages: every remove_entry on the way may end in
\* remove_entry_page.
alloc_pages_locks(debug) == UpTo(remove_entry_page_locks(debug), LockDepth)
\* page.rs add_entry_page: the first page (None), or a further one (Some).
add_entry_page_locks(debug, first) ==
    IF first THEN Guarded("FRAME_ALLOCATOR", alloc_kpage_locks(debug))
    ELSE Fails
         \cup Then(alloc_pages_locks(debug),
                   Guarded("FRAME_ALLOCATOR", alloc_kpage_locks(debug)))

\* FullPageAllocator::allocate of n pages
FullPageAllocator_allocate_locks(debug, n) ==
    Entered("FullPageAllocator",
        Guarded("FPA",
            Then(Returns \cup add_entry_page_locks(debug, TRUE),
            Then(Returns \cup Fails,
            Then(alloc_pages_locks(debug),
                 Guarded("FRAME_ALLOCATOR",
                         Times(alloc_kpage_locks(debug), n)))))))
\* FullPageAllocator::deallocate of n pages
FullPageAllocator_deallocate_locks(debug, n) ==
    Entered("FullPageAllocator",
        Guarded("FRAME_ALLOCATOR", Times(free_kpage_locks(debug), n)))
\* FPAInner::dealloc_pages under the guard init_or_get returns: insert_entry
\* or append_entry may add descriptor pages, squash_entries may remove some.
dealloc_pages_locks(debug) ==
    Guarded("FPA",
        Then(UpTo(add_entry_page_locks(debug, FALSE), LockDepth),
             UpTo(remove_entry_page_locks(debug), LockDepth)))

\* Bucket::new, and Box::new_in(.., &PAGE_ALLOCATOR): one page each.
Bucket_new_locks(debug) == FullPageAllocator_allocate_locks(debug, 1)
\* Bucket::allocate_block: a free block in the chain, or a new bucket page
\* and the Box that holds it.
allocate_block_locks(debug) ==
    Returns \cup Then(Bucket_new_locks(debug), Bucket_new_locks(debug))
\* Bucket::free_block: the drop of an emptied Box<Bucket> runs Bucket::drop
\* and then gives the Box back; deallocate returns nothing.
free_block_locks(debug) ==
    Returns \cup Then(FullPageAllocator_deallocate_locks(debug, 1),
                      FullPageAllocator_deallocate_locks(debug, 1))
\* KAllocator::allocate: a bucket class, or the page allocator for n pages.
KAllocator_allocate_locks(debug, n) ==
    Entered("KAllocator",
        Guarded("HEAP",
            allocate_block_locks(debug)
            \cup Then(Bucket_new_locks(debug), allocate_block_locks(debug))
            \cup FullPageAllocator_allocate_locks(debug, n)))
\* KAllocator::deallocate
KAllocator_deallocate_locks(debug, n) ==
    Entered("KAllocator",
        Guarded("HEAP",
            free_block_locks(debug)
            \cup FullPageAllocator_deallocate_locks(debug, n)))

\* memory::init, then init_frame_allocator: the page table stays locked
\* while FRAME_ALLOCATOR is locked for the assignment.
init_frame_allocator_locks ==
    Then(Guarded("PAGE_TABLE", Returns),
         Guarded("PAGE_TABLE", Guarded("FRAME_ALLOCATOR", Returns)))

\* The spinlock of an allocator.
LockOf(who) == IF who = "KAllocator" THEN "HEAP" ELSE "FPA"

\* No lock is held and no operation runs.
LockEntry ==
    /\ lockOp = "none"
    /\ lockRun = << >>
    /\ held = << >>
    /\ inside = << >>
    /\ lockBad = "none"

-----------------------------------------------------------------------------
(* time.rs, pit.rs: the calibration of the LAPIC timer against PIT channel  *)
(* 0.  A u32 is the pair << high half, low half >> of its 16-bit halves.    *)

TICK_FREQ == 1000
TIMER_FREQUENCY == 1193182
HALF == 256 * 256
U32_MAX == << HALF - 1, HALF - 1 >>
\* a - b for b <= a = 0xFFFF_FFFF: no half borrows.
U32_sub_from_max(b) == << U32_MAX[1] - b[1], U32_MAX[2] - b[2] >>
\* a * k in u32 for k < 2^15: the wrapped product, and whether it overflowed.
U32_mul(a, k) ==
    [val |-> << (a[1] * k + (a[2] * k) \div HALF) % HALF, (a[2] * k) % HALF >>,
     overflow |-> a[1] * k + (a[2] * k) \div HALF >= HALF]
\* a / d in u32 for d < 2^15
U32_div(a, d) ==
    << a[1] \div d, ((a[1] % d) * HALF + a[2]) \div d >>

\* The counter of PIT channel 0 counts modulo PitByte * PitByte; the port
\* hands out its low byte count % PitByte and its high byte count \div PitByte.
PitModulus == PitByte * PitByte
\* ProgrammableIntervalTimer::start_timer: the divisor written to the channel.
PitDivisor(freq) == (TIMER_FREQUENCY \div freq) % PitModulus
\* ProgrammableIntervalTimer::get_count after the second port read, the
\* first having returned lo.
get_count(count, lo) == (count \div PitByte) * PitByte + lo

\* start_timer from the stopped timer on: ticks_per_10ms, ticks_per_s and the
\* initial count, [panic, count].  A build with overflow checks panics on
\* the overflow of `ticks_per_10ms * 100`, a build without wraps.
initial_count(c, checks) ==
    LET ticks_per_10ms == U32_sub_from_max(c)
        ticks_per_s == U32_mul(ticks_per_10ms, 100)
    IN  IF ticks_per_s.overflow /\ checks
        THEN [panic |-> TRUE, count |-> << 0, 0 >>,
              overflow |-> TRUE]
        ELSE [panic |-> FALSE, count |-> U32_div(ticks_per_s.val, TICK_FREQ),
              overflow |-> ticks_per_s.overflow]

\* start_timer has not been called.
TimeEntry ==
    /\ calPc = "entry"
    /\ pitCount = 0
    /\ pitOn = FALSE
    /\ pitLo = 0
    /\ lapicCur = << 0, 0 >>
    /\ loaded = [panic |-> FALSE, count |-> << 0, 0 >>, overflow |-> FALSE]

RestEntry == LockEntry /\ TimeEntry

\* No call has been made on the page allocator.
NoCall == [op |-> "none", ok |-> FALSE, ptr |-> 0, pages |-> 0, pre |-> << >>,
           frames |-> {}, oom |-> FALSE]

-----------------------------------------------------------------------------
(* The frame allocator on its own: calls of allocate_frame / deallocate_frame *)

\* Page-table frames the boot allocator supplies while the bitmap is mapped:
\* TABLE_LEVELS when the bitmap window is still unmapped, fewer when the
\* bootloader has already populated the upper tables.  The smaller counts
\* are explored on the maps that fit one bitmap word.
BootTables(rs) ==
    IF TotalFrames(rs) > WORD_BITS THEN {TABLE_LEVELS} ELSE 0..TABLE_LEVELS

FrameInit ==
    /\ regions \in RegionMaps
    /\ \E tables \in BootTables(regions) :
          LET used == BootUsed(regions, tables)
          IN  /\ used <= Len(usable_frames(regions))
              /\ bitmap = InitialBitmap(used)
              /\ boot = BootFramesOf(regions, used)
    /\ handed = {}
    /\ ret = None
    /\ wasHeld = FALSE
    /\ called = FALSE
    /\ refill = None
    /\ expect = None
    /\ frees = 0
    /\ mapped = << >>
    /\ ptFrames = {}
    /\ fpa = << >>
    /\ runs = {}
    /\ allocs = 0
    /\ last = NoCall
    /\ buckets = NoBuckets
    /\ live = {}
    /\ hlast = NoHeapCall
    /\ IrqEntry
    /\ FsEntry
    /\ RamEntry
    /\ RestEntry
    /\ PathEntry
    /\ panicked = FALSE

AllocateFrame ==
    /\ ~panicked
    /\ LET r == allocate_frame(regions, bitmap)
       IN  /\ bitmap' = r.bitmap
           /\ ret' = r.ret
           /\ panicked' = r.panic
           /\ handed' = IF r.ret.some THEN handed \cup {r.ret.val} ELSE handed
           /\ wasHeld' = (r.ret.some /\ r.ret.val \in boot \cup handed)
    /\ called' = TRUE
    /\ expect' = refill
    /\ refill' = None
    /\ UNCHANGED <<regions, boot, frees, fpaVars, heapVars, irqVars, fsVars,
                   ramVars, pathVars, restVars>>

DeallocateFrame ==
    /\ ~panicked
    /\ frees < MaxFrees
    /\ \E f \in handed :
          LET r == deallocate_frame(regions, bitmap, f)
          IN  /\ bitmap' = r.bitmap
              /\ panicked' = r.panic
              /\ handed' = handed \ {f}
              /\ refill' = IF EveryFrameAllocated(regions, bitmap)
                           THEN Some(f) ELSE None
    /\ frees' = frees + 1
    /\ ret' = None
    /\ wasHeld' = FALSE
    /\ called' = FALSE
    /\ expect' = None
    /\ UNCHANGED <<regions, boot, fpaVars, heapVars, irqVars, fsVars,
                   ramVars, pathVars, restVars>>

FrameNext == AllocateFrame \/ DeallocateFrame

SpecFrame == FrameInit /\ [][FrameNext]_vars

-----------------------------------------------------------------------------
(* Claims about the bitmap frame allocator *)

\* C1: allocate_frame never returns a frame that is currently allocated, that
\* is, one the boot allocator consumed or one an earlier allocate_frame
\* returned and that was not deallocated since.
C1_NeverReturnsHeldFrame ==
    (called /\ ret.some) => ~wasHeld

\* C2: without deallocations the successive allocate_frame calls return
\* distinct frames, N - k of them in all (N usable frames, k consumed at
\* bootstrap), and None from then on; and once every frame is allocated,
\* deallocate_frame(f) followed by allocate_frame returns f.
C2_ExhaustThenRefill ==
    /\ (called /\ frees = 0 /\ ret.some) => ~wasHeld
    /\ (called /\ frees = 0 /\ ~panicked /\ ~ret.some) =>
          Cardinality(handed) = TotalFrames(regions) - Cardinality(boot)
    /\ (called /\ frees = 0 /\ ret.some) =>
          Cardinality(handed) <= TotalFrames(regions) - Cardinality(boot)
    /\ (called /\ expect.some) => (~panicked /\ ret = expect)

\* C3: every frame allocate_frame returns starts at a 4 KiB-aligned address
\* and lies inside one of the usable regions of the region map.
C3_ReturnedFrameAlignedAndUsable ==
    (called /\ ret.some) =>
        /\ ret.val % PAGE_SIZE = 0
        /\ \E i \in 1..Len(regions) :
              /\ regions[i].kind = "Usable"
              /\ regions[i].start <= ret.val
              /\ ret.val + PAGE_SIZE <= regions[i].end

\* C3 witness: a frame of the second usable region of a map with several
\* usable regions was returned, after a deallocation.
C3_Witness ==
    /\ called /\ ret.some /\ frees > 0
    /\ Len(usable_regions(regions)) > 1
    /\ ret.val >= usable_regions(regions)[2].start

\* C4: for every region map and every frame index f below the usable-frame
\* count, address_to_frame(frame_to_address(f)) = f, so deallocate_frame
\* clears the bit allocate_frame set.
C4_IndexAddressRoundTrip ==
    \A f \in 0..(TotalFrames(regions) - 1) :
        LET a == frame_to_address(regions, f)
        IN  a.some /\ address_to_frame(regions, a.val) = Some(f)

-----------------------------------------------------------------------------
(* The page allocator over the page table and the frame allocator:           *)
(* FullPageAllocator::allocate and ::deallocate as the kernel calls them,    *)
(* and FPAInner::dealloc_pages called on the head page with a run that       *)
(* allocate handed out and deallocate unmapped (the kernel itself has no     *)
(* caller of dealloc_pages).                                                 *)

MapFpa == << Region(PAGE_SIZE, PAGE_SIZE + FpaFrames * PAGE_SIZE, "Usable") >>

\* The Usable entries in list order: descriptor pages in `next` order, slots
\* in index order.
RECURSIVE FreeList(_)
FreeList(fl) ==
    IF fl = << >> THEN << >>
    ELSE SelectSeq(Head(fl).entries, LAMBDA e : e.usable) \o FreeList(Tail(fl))

\* The page addresses of the run of n pages at ptr.
RunPages(ptr, n) == {containing_address(ptr) + i * PAGE_SIZE : i \in 0..(n - 1)}

\* The bits allocate_frame has marked behind the last frame of the map: one
\* for every call that found no frame.
Overruns(bm) == Cardinality(bm \ InitialBitmap(TotalFrames(regions)))

\* The request sizes explored: one byte more than n - 1 pages.
Sizes == {(n - 1) * PAGE_SIZE + 1 : n \in 1..(WindowPages + 1)}

\* Everything but the inputs of the path functions.
FpaBoot ==
    /\ regions = MapFpa
    /\ bitmap = InitialBitmap(BootUsed(MapFpa, TABLE_LEVELS))
    /\ boot = BootFramesOf(MapFpa, BootUsed(MapFpa, TABLE_LEVELS))
    /\ handed = {}
    /\ ret = None
    /\ wasHeld = FALSE
    /\ called = FALSE
    /\ refill = None
    /\ expect = None
    /\ frees = 0
    /\ mapped = << >>
    /\ ptFrames = {}
    /\ fpa = << >>
    /\ runs = {}
    /\ allocs = 0
    /\ last = NoCall
    /\ buckets = NoBuckets
    /\ live = {}
    /\ hlast = NoHeapCall
    /\ IrqEntry
    /\ FsEntry
    /\ RamEntry
    /\ RestEntry
    /\ panicked = FALSE

FpaInit == FpaBoot /\ PathEntry

Commit(m) ==
    /\ bitmap' = m.bitmap
    /\ mapped' = m.mapped
    /\ ptFrames' = m.tables
    /\ fpa' = m.fpa
    /\ panicked' = m.panic

Allocate ==
    /\ ~panicked
    /\ allocs < MaxAllocs
    /\ Overruns(bitmap) < MaxOverruns
    /\ allocs' = allocs + 1
    /\ \E size \in Sizes :
       \E r \in {FullPageAllocator_allocate(Machine, size)} :
       \E inner \in {init_or_get(Machine)} :
         LET n == div_ceil(size, PAGE_SIZE) IN
         /\ Commit(r.m)
         /\ runs' = IF r.ok
                    THEN {x \in runs : RunPages(x.ptr, div_ceil(x.size, PAGE_SIZE))
                                         \cap RunPages(r.ptr, n) = {}}
                         \cup {[ptr |-> r.ptr, size |-> size, freed |-> FALSE]}
                    ELSE runs
         /\ last' = [op |-> "allocate", ok |-> r.ok, ptr |-> r.ptr,
                     pages |-> n,
                     pre |-> IF inner.ok THEN FreeList(inner.m.fpa) ELSE << >>,
                     frames |-> {},
                     oom |-> Overruns(r.m.bitmap) > Overruns(bitmap)]
    /\ UNCHANGED <<regions, boot, frameCalls, heapVars, irqVars, fsVars,
                   ramVars, pathVars, restVars>>

Deallocate ==
    /\ ~panicked
    /\ \E run \in {x \in runs : ~x.freed} :
       \E m \in {FullPageAllocator_deallocate(Machine, run.ptr, run.size)} :
         LET n == div_ceil(run.size, PAGE_SIZE) IN
         /\ Commit(m)
         /\ runs' = (runs \ {run}) \cup {[run EXCEPT !.freed = TRUE]}
         /\ allocs' = allocs
         /\ last' = [op |-> "deallocate", ok |-> TRUE, ptr |-> run.ptr,
                     pages |-> n, pre |-> FreeList(fpa),
                     frames |-> {mapped[p] : p \in RunPages(run.ptr, n)
                                                     \cap DOMAIN mapped},
                     oom |-> FALSE]
    /\ UNCHANGED <<regions, boot, frameCalls, heapVars, irqVars, fsVars,
                   ramVars, pathVars, restVars>>

DeallocPages ==
    /\ ~panicked
    /\ Overruns(bitmap) < MaxOverruns
    /\ fpa # << >>
    /\ \E run \in {x \in runs : x.freed} :
       \E r \in {dealloc_pages(Machine, 1, run.ptr, div_ceil(run.size, PAGE_SIZE))} :
         /\ Commit(r.m)
         /\ runs' = runs \ {run}
         /\ allocs' = allocs
         /\ last' = [op |-> "dealloc_pages", ok |-> r.ok, ptr |-> run.ptr,
                     pages |-> div_ceil(run.size, PAGE_SIZE),
                     pre |-> FreeList(fpa), frames |-> {},
                     oom |-> Overruns(r.m.bitmap) > Overruns(bitmap)]
    /\ UNCHANGED <<regions, boot, frameCalls, heapVars, irqVars, fsVars,
                   ramVars, pathVars, restVars>>

FpaNext == Allocate \/ Deallocate \/ DeallocPages

SpecFPA == FpaInit /\ [][FpaNext]_vars

-----------------------------------------------------------------------------
(* Claims about the page allocator, checked under SpecFPA.                   *)

EndOf(e) == e.start + e.pages * PAGE_SIZE

\* C5: after every call that ran alloc_pages (FullPageAllocator::allocate)
\* or dealloc_pages, reading the descriptor pages in list order and the slots
\* in index order, the Usable entries have strictly ascending start, no two of
\* them overlap, and within each page no Empty slot precedes a Usable slot.
C5_FreeListOrdered ==
    (last.op \in {"allocate", "dealloc_pages"} /\ ~panicked) =>
        LET fl == FreeList(fpa) IN
        /\ \A i, j \in 1..Len(fl) :
              i < j => (fl[i].start < fl[j].start /\ EndOf(fl[i]) <= fl[j].start)
        /\ \A k \in 1..Len(fpa) : \A i, j \in 1..ENTRIES_LEN :
              (i < j /\ fpa[k].entries[j].usable) => fpa[k].entries[i].usable

\* C6: after every dealloc_pages call the free list holds no two Usable
\* entries a, b with a.start + a.pages * 4096 = b.start.
C6_NoAdjacentEntries ==
    (last.op = "dealloc_pages" /\ last.ok /\ ~panicked) =>
        LET fl == FreeList(fpa) IN
        \A i, j \in 1..Len(fl) : EndOf(fl[i]) # fl[j].start

\* C7: after FullPageAllocator::deallocate of a run that allocate returned,
\* every page of the run is unmapped, its frames are released, and every page
\* of the run is covered by a Usable entry of the free list.
C7_DeallocateReturnsPages ==
    (last.op = "deallocate" /\ ~panicked) =>
        /\ RunPages(last.ptr, last.pages) \cap DOMAIN mapped = {}
        /\ \A f \in last.frames :
              LET frame == address_to_frame(regions, f) IN
              Bit(frame.val \div WORD_BITS,
                  (WORD_BITS - 1) - (frame.val % WORD_BITS)) \notin bitmap
        /\ \A p \in RunPages(last.ptr, last.pages) :
              \E i \in 1..Len(FreeList(fpa)) :
                 /\ FreeList(fpa)[i].start <= p
                 /\ p + PAGE_SIZE <= EndOf(FreeList(fpa)[i])

\* The entries of the list fl that can hold n pages.
Fits(fl, n) == {i \in 1..Len(fl) : fl[i].pages >= n}

\* The list fl without its i-th entry.
Without(fl, i) == SubSeq(fl, 1, i - 1) \o SubSeq(fl, i + 1, Len(fl))

\* C8: FullPageAllocator::allocate for n pages, while the frame allocator
\* has a frame for every page it asks for, fails only when no Usable entry
\* of the list has at least n pages; otherwise it returns the start of the
\* first such entry in list order and reduces that entry by n pages, removing
\* it when it reaches zero.
C8_FirstFit ==
    (last.op = "allocate" /\ ~last.oom /\ ~panicked) =>
        /\ ~last.ok => Fits(last.pre, last.pages) = {}
        /\ last.ok =>
              /\ Fits(last.pre, last.pages) # {}
              /\ LET i == Min(Fits(last.pre, last.pages))
                     e == last.pre[i]
                 IN  /\ last.ptr = e.start
                     /\ FreeList(fpa) =
                          IF e.pages = last.pages THEN Without(last.pre, i)
                          ELSE [last.pre EXCEPT ![i] =
                                   Usable(e.start + last.pages * PAGE_SIZE,
                                          e.pages - last.pages)]

\* C9: every Usable entry of the free list and every run returned by
\* FullPageAllocator::allocate lies inside [ALLOCATOR_START, ALLOCATOR_END],
\* and the first entry created covers the window minus the first descriptor
\* page.
C9_InsideWindow ==
    /\ \A i \in 1..Len(FreeList(fpa)) :
          /\ ALLOCATOR_START <= FreeList(fpa)[i].start
          /\ EndOf(FreeList(fpa)[i]) - 1 <= ALLOCATOR_END
    /\ \A run \in runs :
          /\ ALLOCATOR_START <= run.ptr
          /\ run.ptr + run.size - 1 <= ALLOCATOR_END
    /\ (fpa = << >> /\ add_entry_page_first(Machine).ok) =>
          FreeList(add_entry_page_first(Machine).m.fpa)
             = << Usable(ALLOCATOR_START + PAGE_SIZE, WindowPages - 1) >>

-----------------------------------------------------------------------------
(* The kernel allocator over the page allocator: KAllocator::allocate with   *)
(* the layouts of Layouts and KAllocator::deallocate of a live allocation    *)
(* with the layout it was allocated with.                                    *)

Layout(size, align) == [size |-> size, align |-> align]

\* The layouts explored: the 2048 class (2 blocks a page) reached by size,
\* the 512 class (8 blocks, one full bitmap byte) reached by alignment, a
\* request of two pages, which is above every size class, and a request
\* aligned to two pages.
Layouts == { Layout(2048, 8), Layout(16, 512), Layout(PAGE_SIZE + 1, 8),
             Layout(8, 2 * PAGE_SIZE) }

\* The run so far, kept in hlast: phase is "allocating" while only allocate
\* was called, "freeing" while the deallocate calls since then freed the
\* allocations in the reverse of the order they were made in, else "off";
\* stack holds, in such a run, the allocations not yet freed, oldest first.
AfterAllocate(h, ok, x) ==
    IF h.phase # "allocating" THEN [phase |-> "off", stack |-> << >>]
    ELSE [phase |-> "allocating",
          stack |-> IF ok THEN Append(h.stack, x) ELSE h.stack]
AfterDeallocate(h, x) ==
    IF h.phase # "off" /\ h.stack # << >> /\ h.stack[Len(h.stack)] = x
    THEN [phase |-> "freeing", stack |-> SubSeq(h.stack, 1, Len(h.stack) - 1)]
    ELSE [phase |-> "off", stack |-> << >>]

HeapInit ==
    /\ FpaInit

HeapAllocate ==
    /\ ~panicked
    /\ hlast.n < MaxHeapCalls
    /\ Overruns(bitmap) < MaxOverruns
    /\ \E layout \in Layouts :
       \E r \in {KAllocator_allocate(buckets, Machine, layout)} :
         /\ Commit(r.m)
         /\ buckets' = r.buckets
         /\ live' = IF r.ok THEN live \cup {[ptr |-> r.ptr, layout |-> layout]}
                    ELSE live
         /\ \E run \in {AfterAllocate(hlast, r.ok,
                                      [ptr |-> r.ptr, layout |-> layout])} :
              hlast' = [op |-> "allocate", ok |-> r.ok, ptr |-> r.ptr,
                        n |-> hlast.n + 1, layout |-> layout,
                        wasLive |-> r.ok /\ \E x \in live : x.ptr = r.ptr,
                        phase |-> run.phase, stack |-> run.stack]
    /\ UNCHANGED <<regions, boot, frameCalls, runs, allocs, last, irqVars, fsVars,
                   ramVars, pathVars, restVars>>

HeapDeallocate ==
    /\ ~panicked
    /\ hlast.n < MaxHeapCalls
    /\ \E x \in live :
       \E r \in {KAllocator_deallocate(buckets, Machine, x.ptr, x.layout)} :
         /\ Commit(r.m)
         /\ buckets' = r.buckets
         /\ live' = live \ {x}
         /\ \E run \in {AfterDeallocate(hlast, x)} :
              hlast' = [op |-> "deallocate", ok |-> TRUE, ptr |-> x.ptr,
                        n |-> hlast.n + 1, wasLive |-> FALSE,
                        layout |-> x.layout,
                        phase |-> run.phase, stack |-> run.stack]
    /\ UNCHANGED <<regions, boot, frameCalls, runs, allocs, last, irqVars, fsVars,
                   ramVars, pathVars, restVars>>

HeapNext == HeapAllocate \/ HeapDeallocate

SpecHeap == HeapInit /\ [][HeapNext]_vars

\* The blocks of a bucket page of class c, and the bit of block b.
Blocks(c) == 0..(PAGE_SIZE \div BLOCK(c) - 1)
BitOf(bucket, b) == TestBit(bucket.bitmap[b \div 8 + 1], 7 - (b % 8))
SetBits(bucket) == {b \in 0..(8 * Len(bucket.bitmap) - 1) : BitOf(bucket, b)}

\* The live allocations served by size class c.
LiveOf(c) ==
    {x \in live : ClassOf(Max(x.layout.size, x.layout.align)) = c}

\* C10: after any sequence of KAllocator::allocate and matching deallocate
\* calls, in every bucket page of every size class a bitmap bit is set iff
\* the block it stands for is live (returned by allocate and not deallocated
\* since); so the set bits of a page are as many as its live allocations,
\* every live allocation of a size class has its page in the chain of its
\* class, allocate
\* never returns a block that is live, and no two live allocations share a
\* block.
C10_BitmapMatchesLive ==
    /\ \A c \in {k \in 0..8 : buckets[k] # << >>} :
         With(LiveOf(c), LAMBDA lv :
           \A j \in 1..Len(buckets[c]) :
             With(SetBits(buckets[c][j]), LAMBDA bits :
               /\ \A b \in Blocks(c) :
                    b \in bits
                      <=> \E x \in lv : x.ptr = buckets[c][j].page + b * BLOCK(c)
               /\ bits \subseteq Blocks(c)
               /\ Cardinality(bits)
                    = Cardinality({x \in lv : align_down(x.ptr, PAGE_SIZE)
                                                = buckets[c][j].page})))
    /\ \A x \in live :
         With(ClassOf(Max(x.layout.size, x.layout.align)), LAMBDA c :
           c # PAGE_CLASS =>
             \E j \in 1..Len(buckets[c]) :
                 buckets[c][j].page = align_down(x.ptr, PAGE_SIZE))
    /\ (hlast.op = "allocate" /\ hlast.ok) => ~hlast.wasLive
    /\ \A x, y \in live :
         x # y => \/ x.ptr + x.layout.size <= y.ptr
                  \/ y.ptr + y.layout.size <= x.ptr

\* A class has a second bucket page holding a live block, and a deallocate
\* has just left a hole in the head page below a block still live.
C10_Witness ==
    /\ hlast.op = "deallocate"
    /\ \E c \in 0..8 :
         /\ Len(buckets[c]) >= 2
         /\ BitOf(buckets[c][2], 0)
         /\ \E b1, b2 \in Blocks(c) :
              /\ b1 < b2
              /\ ~BitOf(buckets[c][1], b1)
              /\ BitOf(buckets[c][1], b2)
              /\ hlast.ptr = buckets[c][1].page + b1 * BLOCK(c)

\* Every block of the bucket page is taken.
Full(c, bucket) == Blocks(c) \subseteq SetBits(bucket)
\* The address lies in a Usable entry of the free list fl.
InFreeList(fl, addr) ==
    \E i \in 1..Len(fl) : fl[i].start <= addr /\ addr + PAGE_SIZE <= EndOf(fl[i])
\* The pages of the chain of class c.
PagesOf(chain) == {chain[j].page : j \in 1..Len(chain)}

\* C11: in every size class, a successful allocate attaches a bucket page only
\* when the class has no page or every page of its chain is full, and then
\* exactly one (so 4096/BLOCK objects use one page and one more attaches a
\* second); an allocate that finds every page full and succeeds attaches one;
\* and a deallocate of the last live block of a non-head page removes that
\* page from the chain, unmaps it, and leaves it in a Usable entry of the
\* full-page allocator's free list.
C11_OnePagePerFullPage ==
    [][\A c \in 0..8 :
         /\ (hlast'.op = "allocate" /\ hlast'.ok
               /\ Len(buckets'[c]) # Len(buckets[c]))
              => /\ \A j \in 1..Len(buckets[c]) : Full(c, buckets[c][j])
                 /\ Len(buckets'[c]) = Len(buckets[c]) + 1
         /\ (hlast'.op = "allocate" /\ hlast'.ok
               /\ buckets'[c] # buckets[c]
               /\ \A j \in 1..Len(buckets[c]) : Full(c, buckets[c][j]))
              => Len(buckets'[c]) = Len(buckets[c]) + 1
         /\ \A j \in 2..Len(buckets[c]) :
              (hlast'.op = "deallocate" /\ ~panicked'
                 /\ align_down(hlast'.ptr, PAGE_SIZE) = buckets[c][j].page
                 /\ Cardinality(SetBits(buckets[c][j])) = 1)
              => /\ buckets[c][j].page \notin PagesOf(buckets'[c])
                 /\ Len(buckets'[c]) = Len(buckets[c]) - 1
                 /\ buckets[c][j].page \notin DOMAIN mapped'
                 /\ InFreeList(FreeList(fpa'), buckets[c][j].page)
      ]_vars

\* The free list FullPageAllocator starts with: the one entry the first
\* descriptor page is given.
InitialFreeList ==
    << Usable(ALLOCATOR_START + PAGE_SIZE,
              (align_up(ALLOCATOR_END, PAGE_SIZE) - ALLOCATOR_START + PAGE_SIZE)
                 \div PAGE_SIZE) >>

\* C12: when a run of KAllocator::allocate calls (bucket sizes and sizes above
\* 2048 bytes) was followed by the deallocate of every allocation made, in the
\* reverse of the order they were made in, nothing is leaked: no size class
\* has a bucket page left and the full-page allocator's free list is the one
\* it started with.
C12_ReverseFreeLeaksNothing ==
    (hlast.phase = "freeing" /\ hlast.stack = << >> /\ ~panicked) =>
        /\ \A c \in 0..8 : buckets[c] = << >>
        /\ FreeList(fpa) = InitialFreeList

\* What a layout needs of a block, and the smallest size class that has it.
Need(layout) ==
    IF layout.size >= layout.align THEN layout.size ELSE layout.align
IsSmallestClass(c, n) ==
    /\ c \in 0..8
    /\ BLOCK(c) >= n
    /\ \A k \in 0..8 : BLOCK(k) >= n => c <= k

\* The step is an allocate served by the chain of size class c: a pointer it
\* returns is a block of a page of that chain, marked in its bitmap and
\* aligned to the layout, and no other class is touched.
ServedByBucket(c) ==
    /\ \A k \in 0..8 \ {c} : buckets'[k] = buckets[k]
    /\ hlast'.ok =>
         /\ hlast'.ptr % hlast'.layout.align = 0
         /\ \E j \in 1..Len(buckets'[c]) : \E b \in Blocks(c) :
              /\ hlast'.ptr = buckets'[c][j].page + b * BLOCK(c)
              /\ BitOf(buckets'[c][j], b)

\* The step is an allocate handed to FullPageAllocator::allocate.
ForwardedAllocate ==
    /\ buckets' = buckets
    /\ \E r \in {FullPageAllocator_allocate(Machine, hlast'.layout.size)} :
         /\ hlast'.ok = r.ok
         /\ r.ok => hlast'.ptr = r.ptr
         /\ fpa' = r.m.fpa /\ mapped' = r.m.mapped /\ bitmap' = r.m.bitmap
         /\ panicked' = r.m.panic

\* The step is a deallocate routed to the chain of size class c, and one
\* handed to FullPageAllocator::deallocate.
FreedByBucket(c) ==
    /\ \A k \in 0..8 \ {c} : buckets'[k] = buckets[k]
    /\ \A j \in 1..Len(buckets'[c]) : \A b \in Blocks(c) :
         hlast'.ptr = buckets'[c][j].page + b * BLOCK(c)
           => ~BitOf(buckets'[c][j], b)
ForwardedDeallocate ==
    /\ buckets' = buckets
    /\ \E m \in {FullPageAllocator_deallocate(Machine, hlast'.ptr,
                                              hlast'.layout.size)} :
         /\ fpa' = m.fpa /\ mapped' = m.mapped /\ bitmap' = m.bitmap
         /\ panicked' = m.panic

\* The step is an allocate that panics and changes nothing.
PanicsUntouched ==
    /\ panicked' /\ ~hlast'.ok
    /\ buckets' = buckets /\ fpa' = fpa /\ mapped' = mapped /\ bitmap' = bitmap

\* What holds of every call whose layout needs at most 2048 bytes, and of
\* every deallocate.
DispatchInClasses ==
    /\ (hlast'.op = "allocate" /\ Need(hlast'.layout) <= 2048)
         => \E c \in 0..8 : IsSmallestClass(c, Need(hlast'.layout))
                              /\ ServedByBucket(c)
    /\ (hlast'.op = "deallocate" /\ Need(hlast'.layout) <= 2048)
         => \E c \in 0..8 : IsSmallestClass(c, Need(hlast'.layout))
                              /\ FreedByBucket(c)
    /\ (hlast'.op = "deallocate" /\ Need(hlast'.layout) > 2048)
         => ForwardedDeallocate

\* C13 as stated: allocate serves a layout from the bucket of the smallest
\* size class among 8, 16, ..., 2048 that is >= max(size, align) and returns
\* a pointer aligned to layout.align; a layout with max(size, align) > 2048
\* or align > 4096 is forwarded to the full-page allocator; deallocate with
\* the same layout is routed to the same bucket or to the full-page
\* allocator.
C13_Dispatch ==
    [][ /\ DispatchInClasses
        /\ (hlast'.op = "allocate"
              /\ (Need(hlast'.layout) > 2048 \/ hlast'.layout.align > PAGE_SIZE))
             => ForwardedAllocate
      ]_vars

\* C13 as the code has it: allocate serves a layout from the bucket of the
\* smallest size class that is >= max(size, align) and returns a pointer
\* aligned to layout.align; a layout with max(size, align) > 2048 and
\* align <= 4096 is forwarded to the full-page allocator; a layout with
\* align > 4096 is not forwarded: the call panics and leaves the buckets and
\* the full-page allocator untouched; deallocate with the same layout is
\* routed to the same bucket or to the full-page allocator.
C13_DispatchOrPanic ==
    [][ /\ DispatchInClasses
        /\ (hlast'.op = "allocate" /\ Need(hlast'.layout) > 2048
              /\ hlast'.layout.align <= PAGE_SIZE)
             => ForwardedAllocate
        /\ (hlast'.op = "allocate" /\ hlast'.layout.align > PAGE_SIZE)
             => PanicsUntouched
      ]_vars

\* An allocate with an alignment above 4096 was made after a bucket and a
\* forwarded allocation had been served.
C13_Witness ==
    /\ hlast.op = "allocate" /\ hlast.layout.align > PAGE_SIZE
    /\ panicked
    /\ \E x \in live : Need(x.layout) > 2048
    /\ \E x \in live : Need(x.layout) <= 2048 /\ x.layout.align > x.layout.size

-----------------------------------------------------------------------------
(* kmain, the devices and the interrupt handlers on one CPU: kmain runs only *)
(* while no handler does, and a handler is entered only with interrupts      *)
(* enabled.                                                                  *)

IrqInit == FpaInit

OtherVars == <<frameVars, fpaVars, heapVars, fsVars, ramVars, pathVars,
              restVars>>

\* One step of kmain.
MainStep ==
    /\ isr = NoIsr
    /\ mainPc <= Len(Program)
    /\ LET step == Program[mainPc] IN
       /\ \/ /\ step = "lapic_lock"
             /\ lapicLock = "free"
             /\ lapicLock' = "main"
             /\ UNCHANGED <<intr, saved, com1Lock, irqOn>>
          \/ /\ step = "lapic_unlock"
             /\ lapicLock' = "free"
             /\ UNCHANGED <<intr, saved, com1Lock, irqOn>>
          \/ /\ step \in {"com1_lock", "print_lock"}
             /\ com1Lock = "free"
             /\ com1Lock' = "main"
             /\ UNCHANGED <<intr, saved, lapicLock, irqOn>>
          \/ /\ step \in {"com1_unlock", "print_unlock"}
             /\ com1Lock' = "free"
             /\ UNCHANGED <<intr, saved, lapicLock, irqOn>>
          \/ /\ step = "com1_enable"
             /\ irqOn' = irqOn \cup {"com1"}
             /\ UNCHANGED <<intr, saved, com1Lock, lapicLock>>
          \/ /\ step = "timer_start"
             /\ irqOn' = irqOn \cup {"timer"}
             /\ UNCHANGED <<intr, saved, com1Lock, lapicLock>>
          \/ /\ step = "cli"
             /\ saved' = intr
             /\ intr' = FALSE
             /\ UNCHANGED <<com1Lock, lapicLock, irqOn>>
          \/ /\ step = "restore"
             /\ intr' = saved
             /\ UNCHANGED <<saved, com1Lock, lapicLock, irqOn>>
          \/ /\ step \in {"sti", "enable_and_hlt"}
             /\ intr' = TRUE
             /\ UNCHANGED <<saved, com1Lock, lapicLock, irqOn>>
          \/ /\ step \in {"init_idt", "memory_init", "boot_allocator",
                         "bitmap_allocator", "ioapic_disable_all",
                         "lapic_attach", "print_write"}
             /\ UNCHANGED <<intr, saved, com1Lock, lapicLock, irqOn>>
       /\ mainPc' = mainPc + 1
    /\ UNCHANGED <<isr, pending, fifo, rx, ticks, reads, OtherVars>>

\* Kernel code reads the tick counter.
ReadTicks ==
    /\ isr = NoIsr
    /\ reads.n < MaxReads
    /\ reads' = [prev |-> reads.last, last |-> Ticks_get(ticks), n |-> reads.n + 1]
    /\ UNCHANGED <<mainPc, intr, saved, isr, com1Lock, lapicLock, pending,
                   irqOn, fifo, rx, ticks, OtherVars>>

\* The LAPIC timer fires.
TimerFire ==
    /\ "timer" \in irqOn
    /\ ticks < MaxTicks
    /\ "timer" \notin pending
    /\ pending' = pending \cup {"timer"}
    /\ UNCHANGED <<mainPc, intr, saved, isr, com1Lock, lapicLock, irqOn, fifo,
                   rx, ticks, reads, OtherVars>>

\* A byte arrives on COM1.
Receive ==
    /\ rx < MaxBytes
    /\ rx' = rx + 1
    /\ fifo' = fifo + 1
    /\ pending' = IF "com1" \in irqOn THEN pending \cup {"com1"} ELSE pending
    /\ UNCHANGED <<mainPc, intr, saved, isr, com1Lock, lapicLock, irqOn, ticks,
                   reads, OtherVars>>

\* The CPU enters the handler of a pending interrupt.
Deliver ==
    /\ intr /\ isr = NoIsr
    /\ \E k \in pending :
         /\ pending' = pending \ {k}
         /\ isr' = EnterIsr(k, ticks)
    /\ intr' = FALSE
    /\ UNCHANGED <<mainPc, saved, com1Lock, lapicLock, irqOn, fifo, rx, ticks,
                   reads, OtherVars>>

\* One step of the running handler: timer_handler is TICKS.inc(); ack_lapic(),
\* com1_handler is COM1.lock().handle_interrupt(); ack_lapic().
IsrStep ==
    /\ isr # NoIsr
    /\ \/ /\ isr.pc = "inc"
          /\ ticks' = Ticks_inc(ticks)
          /\ isr' = Effect(isr, "ack_lock")
          /\ UNCHANGED <<intr, com1Lock, lapicLock, fifo>>
       \/ /\ isr.pc = "lock"
          /\ com1Lock = "free"
          /\ com1Lock' = "isr"
          /\ isr' = [isr EXCEPT !.pc = "read"]
          /\ UNCHANGED <<intr, lapicLock, fifo, ticks>>
       \/ /\ isr.pc = "read"
          /\ IF fifo > 0
             THEN fifo' = fifo - 1 /\ isr' = Effect(isr, "echo")
             ELSE fifo' = fifo /\ isr' = [isr EXCEPT !.pc = "unlock"]
          /\ UNCHANGED <<intr, com1Lock, lapicLock, ticks>>
       \/ /\ isr.pc = "echo"
          /\ isr' = Effect(isr, "read")
          /\ UNCHANGED <<intr, com1Lock, lapicLock, fifo, ticks>>
       \/ /\ isr.pc = "unlock"
          /\ com1Lock' = "free"
          /\ isr' = [isr EXCEPT !.pc = "ack_lock"]
          /\ UNCHANGED <<intr, lapicLock, fifo, ticks>>
       \/ /\ isr.pc = "ack_lock"
          /\ lapicLock = "free"
          /\ lapicLock' = "isr"
          /\ isr' = [isr EXCEPT !.pc = "eoi"]
          /\ UNCHANGED <<intr, com1Lock, fifo, ticks>>
       \/ /\ isr.pc = "eoi"
          /\ isr' = [isr EXCEPT !.pc = "ack_unlock", !.eois = @ + 1]
          /\ UNCHANGED <<intr, com1Lock, lapicLock, fifo, ticks>>
       \/ /\ isr.pc = "ack_unlock"
          /\ lapicLock' = "free"
          /\ isr' = [isr EXCEPT !.pc = "iret"]
          /\ UNCHANGED <<intr, com1Lock, fifo, ticks>>
       \/ /\ isr.pc = "iret"
          /\ isr' = NoIsr
          /\ intr' = TRUE
          /\ UNCHANGED <<com1Lock, lapicLock, fifo, ticks>>
    /\ UNCHANGED <<mainPc, saved, pending, irqOn, rx, reads, OtherVars>>

IrqNext == MainStep \/ ReadTicks \/ TimerFire \/ Receive \/ Deliver \/ IsrStep

SpecIrq == IrqInit /\ [][IrqNext]_vars

\* The CPU keeps executing: the running handler takes its next step whenever
\* it has one.
SpecIrqFair == SpecIrq /\ WF_vars(IsrStep)

\* A handler returns in this step.
IsrReturns == isr # NoIsr /\ isr' = NoIsr

\* C14: in every interleaving of timer interrupts with kernel code, of two
\* successive reads of TICKS.get() the second never returns less than the
\* first, the counter never decreases, and each run of the timer handler
\* increases it by exactly 1 (a run of the COM1 handler by nothing).
C14_TicksMonotone ==
    /\ [](reads.prev <= reads.last)
    /\ [][ /\ ticks' >= ticks
           /\ (IsrReturns /\ isr.kind = "timer") => ticks' = isr.t0 + 1
           /\ (IsrReturns /\ isr.kind = "com1") => ticks' = isr.t0
         ]_vars

\* Two successive reads were taken with timer handler runs in between and
\* returned different values.
C14_Witness ==
    /\ reads.n >= 2
    /\ reads.prev < reads.last
    /\ ticks >= 2

\* C15: every run of the timer handler and of the COM1 handler completes, and
\* completes with exactly one LAPIC EOI write, issued after all the handler's
\* other effects (the TICKS increment, the reads and the echo writes that
\* drain the serial FIFO).
C15_HandlersCompleteWithEoi ==
    /\ [][IsrReturns => (isr.eois = 1 /\ ~isr.late)]_vars
    /\ [](~isr.late /\ isr.eois <= 1)
    /\ (isr # NoIsr) ~> (isr = NoIsr)

\* C16: a handler never waits for a spinlock (COM1, LAPIC) that the
\* interrupted code holds, and whenever kmain holds the COM1 lock, interrupts
\* are disabled and no handler runs.
C16_NoLockHeldWithInterrupts ==
    /\ ~(isr.pc = "lock" /\ com1Lock = "main")
    /\ ~(isr.pc = "ack_lock" /\ lapicLock = "main")
    /\ com1Lock = "main" => (~intr /\ isr = NoIsr)

-----------------------------------------------------------------------------
(* The directory cache on its own: mount_fs and DIR_CACHE.get calls, with   *)
(* the timer ticking between them.                                         *)

FsInit == FpaInit

\* The paths get is called with, besides the names of the cached entries.
Requests ==
    { << "/" >>, << "/", "a" >>, << "/", "a", "/", "b" >>, << "/", "c" >>,
      << "/", "c", "/", "b" >>, << "a" >> }

\* The DEntry filed under each key.
EntriesOf(es) == [k \in DOMAIN es |-> es[k].entry]

FsRest == <<regions, bitmap, boot, frameCalls, fpaVars, heapVars, ramVars,
           pathVars, restVars>>
IrqRest == <<mainPc, intr, saved, isr, com1Lock, lapicLock, pending, irqOn,
             fifo, rx, reads>>

\* MOUNTS.mount_fs(MountCtx { dest: None, .. }): the root filesystem, mounted
\* once.
FsMountRoot ==
    /\ ~panicked
    /\ mounts = << >>
    /\ \E o \in mount_fs(dirCache, mounts, None, 0, Ticks_get(ticks)) :
          /\ dirCache' = o.entries
          /\ mounts' = o.mounts
          /\ flast' = [op |-> "mount", path |-> << SEPERATOR >>,
                       res |-> FsOk(o.mounts[Len(o.mounts)].dentry),
                       log |-> o.log, before |-> EntriesOf(dirCache)]
    /\ UNCHANGED <<FsRest, irqVars, panicked>>

\* MOUNTS.mount_fs(MountCtx { dest: Some(dentry), .. }) on a dentry that
\* DIR_CACHE.get returned.
FsMountAt ==
    /\ ~panicked
    /\ mounts # << >>
    /\ Len(mounts) < MaxMounts
    /\ \E k \in DOMAIN dirCache :
       \E o \in mount_fs(dirCache, mounts, Some(dirCache[k].entry),
                         Len(mounts), Ticks_get(ticks)) :
          /\ dirCache' = o.entries
          /\ mounts' = o.mounts
          /\ flast' = [op |-> "mount", path |-> dirCache[k].entry.name,
                       res |-> FsOk(dirCache[k].entry),
                       log |-> o.log, before |-> EntriesOf(dirCache)]
    /\ UNCHANGED <<FsRest, irqVars, panicked>>

\* DIR_CACHE.get(path)
FsGet ==
    /\ ~panicked
    /\ \E path \in Requests \cup {dirCache[k].entry.name : k \in DOMAIN dirCache} :
       \E o \in DirectoryCache_get(dirCache, mounts, path, Ticks_get(ticks)) :
          /\ dirCache' = o.entries
          /\ panicked' = o.panic
          /\ flast' = [op |-> "get", path |-> path, res |-> o.res,
                       log |-> o.log, before |-> EntriesOf(dirCache)]
    /\ UNCHANGED <<FsRest, irqVars, mounts>>

\* A timer interrupt between two calls: timer_handler.
FsTick ==
    /\ ~panicked
    /\ ticks < MaxFsTicks
    /\ ticks' = Ticks_inc(ticks)
    /\ UNCHANGED <<FsRest, IrqRest, fsVars, panicked>>

FsNext == FsMountRoot \/ FsMountAt \/ FsGet \/ FsTick

SpecFs == FsInit /\ [][FsNext]_vars

-----------------------------------------------------------------------------
(* Claims about the directory cache *)

\* The last call was DIR_CACHE.get(d.name()) for an entry d the cache held.
GotCached(k) ==
    /\ flast.op = "get"
    /\ k \in DOMAIN flast.before
    /\ flast.before[k].name = flast.path

\* C17: for every DEntry d in the directory cache, DIR_CACHE.get(d.name())
\* returns a DEntry with the path, the inode number and the filesystem of
\* d, and leaves the set of cached keys as it was.
C17_GetCachedReturnsSame ==
    \A k \in DOMAIN flast.before :
        GotCached(k) =>
            /\ flast.res.ok
            /\ flast.res.entry.name = flast.before[k].name
            /\ flast.res.entry.inode = flast.before[k].inode
            /\ flast.res.entry.fs = flast.before[k].fs
            /\ DOMAIN dirCache = DOMAIN flast.before

\* get was called with the name of a cached entry below the root while the
\* cache was full, and returned it.
C17_Witness ==
    /\ GotCached(<< "/", "/", "a", "b" >>)
    /\ Cardinality(DOMAIN flast.before) >= CACHE_SIZE
    /\ flast.res.ok

\* The pieces of s between its separators.
RECURSIVE Split(_)
Split(s) ==
    IF FirstSep(s) = 0 THEN << s >>
    ELSE << SubSeq(s, 1, FirstSep(s) - 1) >>
         \o Split(SubSeq(s, FirstSep(s) + 1, Len(s)))

\* An absolute path without empty, `.` or `..` pieces: the root, or a
\* separator before every name and nowhere else.
Canonical(p) ==
    /\ p # << >>
    /\ p[1] = SEPERATOR
    /\ \/ p = << SEPERATOR >>
       \/ \A i \in 1..Len(Split(Tail(p))) :
              Split(Tail(p))[i] \notin {<< >>, << "." >>, << ".", "." >>}

\* The canonical path of an inode of the mounted tree: the path of the
\* directory listing it, one separator, and its name there.
RECURSIVE PathOf(_)
PathOf(n) ==
    IF n = 0 THEN << SEPERATOR >>
    ELSE LET d == CHOOSE d \in DOMAIN Inodes :
                      \E i \in 1..Len(Inodes[d].list) : Inodes[d].list[i].inode = n
             i == CHOOSE i \in 1..Len(Inodes[d].list) : Inodes[d].list[i].inode = n
         IN  (IF d = 0 THEN << >> ELSE PathOf(d))
             \o << SEPERATOR >> \o Inodes[d].list[i].name

\* C18: every key of the directory cache, and the name of the DEntry filed
\* under it, is a canonical path (absolute, no `.` or `..`, single
\* separators) and is the path of the parent directory, one separator, and
\* the name of the entry.
C18_KeysCanonical ==
    \A k \in DOMAIN dirCache :
        /\ Canonical(k)
        /\ Canonical(dirCache[k].entry.name)
        /\ k = PathOf(dirCache[k].entry.inode)

\* The directory that lists inode n.
ParentInode(n) ==
    CHOOSE d \in DOMAIN Inodes :
        \E i \in 1..Len(Inodes[d].list) : Inodes[d].list[i].inode = n
\* Inode n is the dentry of a mount / of a cached entry.
IsMountRoot(n) == \E i \in 1..Len(mounts) : mounts[i].dentry.inode = n
IsCached(n) == \E k \in DOMAIN dirCache : dirCache[k].entry.inode = n
\* Every directory from inode n up to its mount root has a cached entry.
RECURSIVE AncestorsCached(_)
AncestorsCached(n) ==
    IF IsMountRoot(n) \/ n = 0 THEN TRUE
    ELSE IsCached(ParentInode(n)) /\ AncestorsCached(ParentInode(n))

\* C19: after any sequence of mounts and gets, for every key of the
\* directory cache every ancestor directory of its entry, up to the mount
\* root, is cached too.  Ancestors are the directories of the tree, however
\* their keys are spelled.
C19_AncestorsCached ==
    \A k \in DOMAIN dirCache : AncestorsCached(dirCache[k].entry.inode)

\* The keys of cache es that are not the path of a mount.
Evictable(es) == {k \in DOMAIN es : ~is_mount_path(mounts, k)}
\* The insert_entry calls of the last operation that found the cache full.
FullInserts ==
    {i \in 1..Len(flast.log) :
        Cardinality(DOMAIN flast.log[i].before) >= CACHE_SIZE}
\* Call i removed exactly one entry, one that is not a mount root and whose
\* last_access is minimal among the entries that are not mount roots.
EvictedOneLru(i) ==
    \E k \in Evictable(flast.log[i].before) :
        /\ flast.log[i].evicted = {k}
        /\ \A j \in Evictable(flast.log[i].before) :
              flast.log[i].before[k].last <= flast.log[i].before[j].last

\* C20: when insert_entry is called while the cache holds CACHE_SIZE or
\* more entries, exactly one entry is removed before the insertion, a
\* non-mount-root entry whose last_access is minimal among the
\* non-mount-root entries.
C20_EvictsOneLru == \A i \in FullInserts : EvictedOneLru(i)

\* C20, amended: when insert_entry is called while the cache holds
\* CACHE_SIZE or more entries and some entry is not a mount root, exactly one
\* entry is removed before the insertion, a non-mount-root entry whose
\* last_access is minimal among the non-mount-root entries; when every entry
\* is a mount root nothing is removed and the cache grows past CACHE_SIZE.
C20_EvictsOneLruIfAny ==
    \A i \in FullInserts :
        IF Evictable(flast.log[i].before) = {}
        THEN flast.log[i].evicted = {}
        ELSE EvictedOneLru(i)

\* An insert_entry found the cache full with two evictable entries of
\* different age and removed one.
C20_Witness ==
    \E i \in FullInserts :
        /\ Cardinality(flast.log[i].evicted) = 1
        /\ \E j, k \in Evictable(flast.log[i].before) :
              flast.log[i].before[j].last < flast.log[i].before[k].last

\* C21: a path that is the root of a mount is never removed from the
\* directory cache by eviction: after mount_fs and any sequence of gets,
\* evicting ones included, the name of every mount's dentry is a key.
C21_MountRootsStayCached ==
    \A i \in 1..Len(mounts) : mounts[i].dentry.name \in DOMAIN dirCache

\* A get evicted an entry while two paths were mounted.
C21_Witness ==
    /\ flast.op = "get"
    /\ \E i \in 1..Len(flast.log) : flast.log[i].evicted # {}
    /\ \E i, j \in 1..Len(mounts) : mounts[i].dentry.name # mounts[j].dentry.name

\* The paths that are mounted.
MountPaths == {mounts[i].dentry.name : i \in 1..Len(mounts)}

\* C22: after any sequence of mounts and gets the directory cache holds at
\* most CACHE_SIZE entries.
C22_AtMostCacheSize == Cardinality(DOMAIN dirCache) <= CACHE_SIZE

\* C22, amended: after any sequence of mounts and gets the directory cache
\* holds at most CACHE_SIZE entries, or at most one entry more than there
\* are mounted paths when that is larger.
C22_AtMostCacheSizeOrMounts ==
    Cardinality(DOMAIN dirCache)
        <= Max(CACHE_SIZE, Cardinality(MountPaths) + 1)

\* An insert_entry found the cache full, evicted, and left it full, with
\* fewer than CACHE_SIZE paths mounted.
C22_Witness ==
    /\ \E i \in FullInserts : flast.log[i].evicted # {}
    /\ Cardinality(DOMAIN dirCache) = CACHE_SIZE
    /\ Cardinality(MountPaths) < CACHE_SIZE

\* C23: DIR_CACHE.get panics only when no filesystem is mounted at `/`:
\* while a mount covers `/`, a get of any path, absolute or relative,
\* returns Ok or an FSError.
C23_GetPanicsOnlyWithoutRoot ==
    (flast.op = "get" /\ is_mount_path(mounts, << SEPERATOR >>)) =>
        (~panicked /\ flast.res.err # "panic")

\* The directories of the tree above inode n.
RECURSIVE Above(_)
Above(n) == IF n = 0 THEN {} ELSE {ParentInode(n)} \cup Above(ParentInode(n))
\* The last call was a get of an absolute path that missed and succeeded.
MissSucceeded ==
    /\ flast.op = "get"
    /\ flast.res.ok
    /\ flast.path \notin DOMAIN flast.before
    /\ flast.path # << >> /\ flast.path[1] = SEPERATOR

\* C24: after a get(p) miss that succeeds for an absolute path p, the cache
\* holds an entry keyed by p and one for each directory between the nearest
\* previously cached ancestor and p, the returned DEntry is named p, and a
\* get(p) made next is a fast-path hit on the same inode number.
C24_MissFillsPath ==
    MissSucceeded =>
        /\ flast.path \in DOMAIN dirCache
        /\ flast.res.entry.name = flast.path
        /\ \A n \in Above(flast.res.entry.inode) :
              (\A k \in DOMAIN flast.before : flast.before[k].inode # n)
                  => IsCached(n)
        /\ \A o \in DirectoryCache_get(dirCache, mounts, flast.path,
                                       Ticks_get(ticks)) :
              /\ o.log = << >>
              /\ o.res.ok
              /\ o.res.entry.inode = flast.res.entry.inode

-----------------------------------------------------------------------------
(* The ramfs: init_super, create_inode, the inode operations on inodes read *)
(* with get_inode, and write_inode of the inode the last operation returned. *)

RamInit == FpaInit

RamOps == {"create", "link", "symlink", "mkdir"}
\* The path components handed to the inode operations.
RamComps == {Normal(<<"a">>), Normal(<<"b">>), Comp("ParentDir")}
RamRest == <<frameVars, fpaVars, heapVars, irqVars, fsVars, pathVars,
            restVars>>

\* What can be read from the superblock: every inode get_inode returns and
\* the listing of each.
Readable(s, store) ==
    [n \in DOMAIN s.inodes |->
        [inode |-> get_inode(s, n),
         list |-> InodeOps_list(get_inode(s, n), store)]]

\* FileSystem::init_super, as mount_fs calls it.
RamMount ==
    /\ ~panicked
    /\ ~rlast.mounted
    /\ sb.count < MaxInodes
    /\ \E r \in {init_super(sb, blockStore)} :
          /\ sb' = r.sb
          /\ blockStore' = r.store
          /\ rlast' = [NoRamCall EXCEPT !.op = "init_super",
                         !.mounted = TRUE, !.n = rlast.n,
                         !.added = [n \in DOMAIN r.sb.inodes |->
                                       IF n \in DOMAIN rlast.added
                                       THEN rlast.added[n] ELSE << >>]]
    /\ UNCHANGED <<RamRest, panicked>>

\* SuperBlock::create_inode
RamCreateInode ==
    /\ ~panicked
    /\ sb.count < MaxInodes
    /\ \E r \in {create_inode(sb, blockStore)} :
          /\ sb' = r.sb
          /\ blockStore' = r.store
          /\ rlast' = [NoRamCall EXCEPT !.op = "create_inode",
                         !.mounted = rlast.mounted, !.n = rlast.n,
                         !.added = [n \in DOMAIN r.sb.inodes |->
                                       IF n \in DOMAIN rlast.added
                                       THEN rlast.added[n] ELSE << >>]]
    /\ UNCHANGED <<RamRest, panicked>>

\* One of create, link, symlink and mkdir, on the inode d and the directory
\* entry of the inode p, both as get_inode returns them.
RamOp ==
    /\ ~panicked
    /\ rlast.n < MaxRamCalls
    /\ \E kind \in RamOps, d \in DOMAIN sb.inodes, p \in DOMAIN sb.inodes,
          comp \in RamComps, long \in BOOLEAN :
          /\ long => kind = "symlink"
          /\ \E r \in {inode_op(kind, get_inode(sb, d), get_inode(sb, p),
                                comp, long, blockStore)} :
                /\ blockStore' = r.store
                /\ rlast' = [op |-> kind, err |-> r.err, dst |-> r.dst,
                             parent |-> p, comp |-> comp, long |-> long,
                             mounted |-> rlast.mounted,
                             n |-> rlast.n + 1,
                             before |-> Readable(sb, blockStore),
                             added |->
                                 IF r.err = "none"
                                 THEN [rlast.added EXCEPT ![p] =
                                          Append(@, [name |-> comp.s,
                                                     inode |-> d])]
                                 ELSE rlast.added]
    /\ UNCHANGED <<RamRest, sb, panicked>>

\* SuperBlock::write_inode of the inode the last operation handed back.
RamWriteInode ==
    /\ ~panicked
    /\ rlast.n < MaxRamCalls
    /\ rlast.op \in RamOps
    /\ \E r \in {write_inode(sb, rlast.dst)} :
          /\ sb' = r.sb
          /\ rlast' = [rlast EXCEPT !.op = "write_inode", !.err = r.err,
                                    !.n = rlast.n + 1,
                                    !.before = << >>]
    /\ UNCHANGED <<RamRest, blockStore, panicked>>

RamNext == RamMount \/ RamCreateInode \/ RamOp \/ RamWriteInode

SpecRamfs == RamInit /\ [][RamNext]_vars

\* C25: after create, link, symlink or mkdir, and before any write_inode,
\* everything readable from the superblock through get_inode -- every inode
\* and the listing of every directory, the parent's included -- is what it
\* was before the operation.
C25_OpsLeaveSuperblockAlone ==
    rlast.op \in RamOps => Readable(sb, blockStore) = rlast.before

\* C26: create, link, symlink and mkdir return BadPath for a component that
\* is not Normal, NotDirectory for a parent that is not a directory, Exists
\* for a name the parent already lists, and otherwise succeed and add exactly
\* the one entry (name, number of dst) to the listing of the parent.
ListedNames(l) == {l[i].name : i \in 1..Len(l)}
C26_ErrorsOrOneEntry ==
    rlast.op \in RamOps =>
        LET old == rlast.before[rlast.parent]
            new == InodeOps_list(get_inode(sb, rlast.parent), blockStore)
        IN  IF rlast.comp.kind # "Normal" THEN rlast.err = "BadPath"
            ELSE IF old.inode.mode # "DIRECTORY"
            THEN rlast.err = "NotDirectory"
            ELSE IF rlast.comp.s \in ListedNames(old.list.list)
            THEN rlast.err = "Exists"
            ELSE /\ rlast.err = "none"
                 /\ new.err = "none"
                 /\ Len(new.list) = Len(old.list.list) + 1
                 /\ \E i \in 1..Len(new.list) :
                       /\ new.list[i] = [name |-> rlast.comp.s,
                                         inode |-> rlast.dst.num]
                       /\ [j \in 1..Len(old.list.list) |->
                              new.list[IF j < i THEN j ELSE j + 1]]
                          = old.list.list

\* C27: the listing of every directory of the ramfs holds exactly the (name,
\* inode number) pairs the successful create, link, symlink and mkdir calls
\* added to it, each once.
SeqBag(l) ==
    [x \in {l[i] : i \in 1..Len(l)} |-> Cardinality({i \in 1..Len(l) : l[i] = x})]
C27_ListYieldsAdded ==
    \A n \in DOMAIN sb.inodes :
        get_inode(sb, n).mode = "DIRECTORY" =>
            SeqBag(InodeOps_list(get_inode(sb, n), blockStore).list)
                = SeqBag(rlast.added[n])

-----------------------------------------------------------------------------
(* fs/path as pure functions: a run fixes two paths and applies             *)
(* components() in both directions, parent, file_name, as_path, and join    *)
(* followed by strip_prefix to them.                                         *)

PathChars == {SEPERATOR, ".", "a"}
\* Every path of at most n characters.
PathsUpTo(n) == UNION {[1..k -> PathChars] : k \in 0..n}
\* "/a//b/./c/../d/"
ExamplePath ==
    <<"/", "a", "/", "/", "b", "/", ".", "/", "c", "/", ".", ".", "/", "d",
      "/">>

PathInit ==
    /\ FpaBoot
    /\ pathA \in PathsUpTo(MaxPathLen) \cup {ExamplePath}
    /\ pathB \in PathsUpTo(MaxJoinLen)
    /\ pout = NoPathCall

PathRest == <<frameVars, fpaVars, heapVars, irqVars, fsVars, ramVars,
              panicked, pathA, pathB, restVars>>

\* path.components() collected forwards, and collected with rev().
PathComponents ==
    /\ pout' = [op |-> "components",
                res |-> [fwd |-> Collect(Components_new(pathA)),
                         rev |-> CollectBack(Components_new(pathA))]]
    /\ UNCHANGED PathRest

PathParent ==
    /\ pout' = [op |-> "parent", res |-> Path_parent(pathA)]
    /\ UNCHANGED PathRest

PathFileName ==
    /\ pout' = [op |-> "file_name", res |-> Path_file_name(pathA)]
    /\ UNCHANGED PathRest

\* path.components().as_path()
PathAsPath ==
    /\ pout' = [op |-> "as_path", res |-> as_path(Components_new(pathA))]
    /\ UNCHANGED PathRest

\* a.join(b) and a.join(b).strip_prefix(a)
PathJoin ==
    /\ \E j \in {Path_join(pathA, pathB)} :
          pout' = [op |-> "join",
                   res |-> [joined |-> j,
                            stripped |-> Path_strip_prefix(j, pathA)]]
    /\ UNCHANGED PathRest

PathNext ==
    PathComponents \/ PathParent \/ PathFileName \/ PathAsPath \/ PathJoin

SpecPath == PathInit /\ [][PathNext]_vars

\* A sequence back to front.
Rev(s) == [i \in 1..Len(s) |-> s[Len(s) + 1 - i]]
\* The non-empty segments between the separators of a path.
Segments(p) == SelectSeq(Split(p), LAMBDA s : s # << >>)
HasRoot(p) == p # << >> /\ p[1] = SEPERATOR
SegmentComp(seg) ==
    IF seg = << "." >> THEN Comp("CurDir")
    ELSE IF seg = << ".", "." >> THEN Comp("ParentDir")
    ELSE Normal(seg)
\* One component per non-empty segment, after RootDir for a leading separator.
PerSegment(p) ==
    (IF HasRoot(p) THEN << Comp("RootDir") >> ELSE << >>)
    \o [i \in 1..Len(Segments(p)) |-> SegmentComp(Segments(p)[i])]
\* The same without the `.` segments, except a `.` that starts the path.
PerSegmentNoDot(p) ==
    (IF HasRoot(p) THEN << Comp("RootDir") >> ELSE << >>)
    \o (IF Split(p)[1] = << "." >> THEN << Comp("CurDir") >> ELSE << >>)
    \o LET segs == SelectSeq(Segments(p), LAMBDA s : s # << "." >>)
       IN  [i \in 1..Len(segs) |-> SegmentComp(segs[i])]
\* parent() and file_name() of "/a//b/./c/../d/".
ExampleAnswers ==
    /\ (pout.op = "parent" /\ pathA = ExamplePath)
           => pout.res = Some(SubSeq(ExamplePath, 1, 12))
    /\ (pout.op = "file_name" /\ pathA = ExamplePath)
           => pout.res = Some(<< "d" >>)

\* C28: components() yields one component per non-empty segment of the path,
\* in order and the same in both directions: RootDir for a leading separator,
\* CurDir for a `.` segment, ParentDir for `..`, Normal otherwise; parent() of
\* "/a//b/./c/../d/" is "/a//b/./c/.." and its file_name() is "d".
C28_OnePerSegment ==
    /\ pout.op = "components" =>
           /\ pout.res.fwd = PerSegment(pathA)
           /\ pout.res.rev = Rev(PerSegment(pathA))
    /\ ExampleAnswers

\* C28, amended: as above, except that a `.` segment yields CurDir only when
\* it starts a path without a leading separator, and nothing anywhere else.
C28_OnePerSegmentButDot ==
    /\ pout.op = "components" =>
           /\ pout.res.fwd = PerSegmentNoDot(pathA)
           /\ pout.res.rev = Rev(PerSegmentNoDot(pathA))
    /\ ExampleAnswers

C28_Witness ==
    /\ pout.op = "components"
    /\ pathA = ExamplePath
    /\ pout.res.fwd = << Comp("RootDir"), Normal(<< "a" >>), Normal(<< "b" >>),
                         Normal(<< "c" >>), Comp("ParentDir"),
                         Normal(<< "d" >>) >>

IsAbsolute(p) == Components_new(p).has_physical_root
\* An absolute path without its trailing separators and `.` segments.
RECURSIVE Trimmed(_)
Trimmed(p) ==
    IF Len(p) <= 1 THEN p
    ELSE IF p[Len(p)] = SEPERATOR
            \/ (p[Len(p)] = "." /\ p[Len(p) - 1] = SEPERATOR)
    THEN Trimmed(SubSeq(p, 1, Len(p) - 1))
    ELSE p

\* C29: for an absolute path p, p.components().as_path() is p.
C29_AsPathIsIdentity ==
    (pout.op = "as_path" /\ IsAbsolute(pathA)) => pout.res = pathA

\* C29, amended: for an absolute path p, p.components().as_path() is p
\* without its trailing separators and trailing `.` segments, and so p itself
\* when p has none.
C29_AsPathTrimsTail ==
    (pout.op = "as_path" /\ IsAbsolute(pathA)) => pout.res = Trimmed(pathA)

C29_Witness ==
    /\ pout.op = "as_path"
    /\ pathA = << "/", "a", "/" >>
    /\ pout.res = << "/", "a" >>

\* C30: for a relative b, a.join(b) is a, a separator unless a ends in one,
\* and b, and a.join(b).strip_prefix(a) is b; for an absolute b, a.join(b)
\* is b.
C30_JoinAppends ==
    pout.op = "join" =>
        IF IsAbsolute(pathB) THEN pout.res.joined = pathB
        ELSE /\ pout.res.joined =
                    pathA
                    \o (IF pathA # << >> /\ pathA[Len(pathA)] # SEPERATOR
                        THEN << SEPERATOR >> ELSE << >>)
                    \o pathB
             /\ pout.res.stripped = Some(pathB)


-----------------------------------------------------------------------------
(* One execution at a time calls into the memory subsystem; every event of  *)
(* the run it takes is one step.                                             *)

LockInit == FpaInit

LockRuns(op, debug, n) ==
    IF op = "init_frame_allocator" THEN init_frame_allocator_locks
    ELSE IF op = "FullPageAllocator_allocate"
    THEN FullPageAllocator_allocate_locks(debug, n)
    ELSE IF op = "FullPageAllocator_deallocate"
    THEN FullPageAllocator_deallocate_locks(debug, n)
    ELSE IF op = "dealloc_pages" THEN dealloc_pages_locks(debug)
    ELSE IF op = "KAllocator_allocate"
    THEN KAllocator_allocate_locks(debug, n)
    ELSE KAllocator_deallocate_locks(debug, n)
LockOps == {"init_frame_allocator", "FullPageAllocator_allocate",
            "FullPageAllocator_deallocate", "dealloc_pages",
            "KAllocator_allocate", "KAllocator_deallocate"}

LockRest == <<frameVars, fpaVars, heapVars, irqVars, fsVars, ramVars,
              pathVars, timeVars>>

\* An operation is called with no lock held.
LockCall ==
    /\ lockOp = "none"
    /\ lockBad = "none"
    /\ \E op \in LockOps, debug \in BOOLEAN, n \in 0..MaxLockPages :
          \E r \in LockRuns(op, debug, n) :
              /\ lockOp' = op
              /\ lockRun' = r.ev
    /\ UNCHANGED <<held, inside, lockBad, LockRest>>

\* spin::Mutex::lock: the acquire of a lock the execution already holds
\* spins for ever.
LockAcquire ==
    /\ lockBad = "none"
    /\ lockRun # << >>
    /\ Head(lockRun).e = "acq"
    /\ IF \E i \in 1..Len(held) : held[i] = Head(lockRun).x
       THEN /\ lockBad' = "relock"
            /\ UNCHANGED <<held, lockRun>>
       ELSE /\ held' = Append(held, Head(lockRun).x)
            /\ lockRun' = Tail(lockRun)
            /\ UNCHANGED lockBad
    /\ UNCHANGED <<lockOp, inside, LockRest>>

\* The drop of a guard.
LockRelease ==
    /\ lockBad = "none"
    /\ lockRun # << >>
    /\ Head(lockRun).e = "rel"
    /\ held' = SelectSeq(held, LAMBDA l : l # Head(lockRun).x)
    /\ lockRun' = Tail(lockRun)
    /\ UNCHANGED <<lockOp, inside, lockBad, LockRest>>

\* A call into an allocator, and its return.
LockEnter ==
    /\ lockBad = "none"
    /\ lockRun # << >>
    /\ Head(lockRun).e = "enter"
    /\ inside' = Append(inside, Head(lockRun).x)
    /\ lockBad' = IF \E i \in 1..Len(held) : held[i] = LockOf(Head(lockRun).x)
                  THEN "reenter" ELSE "none"
    /\ lockRun' = Tail(lockRun)
    /\ UNCHANGED <<lockOp, held, LockRest>>
LockLeave ==
    /\ lockBad = "none"
    /\ lockRun # << >>
    /\ Head(lockRun).e = "leave"
    /\ inside' = SubSeq(inside, 1, Len(inside) - 1)
    /\ lockRun' = Tail(lockRun)
    /\ UNCHANGED <<lockOp, held, lockBad, LockRest>>

\* The operation has returned.
LockReturn ==
    /\ lockOp # "none"
    /\ lockRun = << >>
    /\ lockOp' = "none"
    /\ UNCHANGED <<lockRun, held, inside, lockBad, LockRest>>

LockNext ==
    LockCall \/ LockAcquire \/ LockRelease \/ LockEnter \/ LockLeave
    \/ LockReturn

SpecLock == LockInit /\ [][LockNext]_vars

\* The rank of the three locks in the order FPA inner, FRAME_ALLOCATOR,
\* PAGE_TABLE; 0 for every other lock.
LockRank(l) ==
    IF l = "FPA" THEN 1 ELSE IF l = "FRAME_ALLOCATOR" THEN 2
    ELSE IF l = "PAGE_TABLE" THEN 3 ELSE 0

\* C31: whenever more than one of the locks FPA inner, FRAME_ALLOCATOR and
\* PAGE_TABLE is held, they were acquired in the order FPA inner, then
\* FRAME_ALLOCATOR, then PAGE_TABLE.
C31_LockOrder ==
    \A i, j \in 1..Len(held) :
        (i < j /\ LockRank(held[i]) > 0 /\ LockRank(held[j]) > 0)
            => LockRank(held[i]) < LockRank(held[j])

\* C32: no execution of the kernel allocator or of the page allocator
\* acquires a spinlock it already holds, and none enters an allocator whose
\* lock it holds.
C32_NoRelockNoReentry ==
    lockOp \in {"KAllocator_allocate", "KAllocator_deallocate",
                "FullPageAllocator_allocate", "FullPageAllocator_deallocate"}
        => lockBad = "none"

\* The kernel allocator has gone through the page allocator down to the
\* page table: all four locks are held.
C32_Witness ==
    /\ lockOp = "KAllocator_allocate"
    /\ held = << "HEAP", "FPA", "FRAME_ALLOCATOR", "PAGE_TABLE" >>
    /\ inside = << "KAllocator", "FullPageAllocator" >>


-----------------------------------------------------------------------------
(* Failed calls and descriptor pages of the page allocator, under SpecFPA.  *)

\* The step is a call of FullPageAllocator::allocate that returns an error.
AllocateFailed == allocs' = allocs + 1 /\ ~last'.ok

\* C38: a call of FullPageAllocator::allocate that returns an error leaves
\* the free list, the mapped pages and the allocated frames as they were
\* before the call.
C38_FailedAllocateChangesNothing ==
    [][AllocateFailed =>
          /\ FreeList(fpa') = FreeList(fpa)
          /\ mapped' = mapped
          /\ bitmap' = bitmap]_vars

\* Descriptor page k holds no Usable entry.
AllEmpty(page) == \A i \in 1..ENTRIES_LEN : ~page.entries[i].usable

\* C39: after alloc_pages, and after the remove_entry calls of it and of
\* squash_entries, no descriptor page but the head page is entirely Empty.
C39_NoEmptyTailPage ==
    (last.op \in {"allocate", "dealloc_pages"} /\ last.ok /\ ~panicked) =>
        \A k \in 2..Len(fpa) : ~AllEmpty(fpa[k])

\* Where dealloc_pages calls insert_entry for the run at start: the page k
\* and the slot i, or none when it merges, appends or returns early.
RECURSIVE InsertCall(_, _, _, _, _)
InsertCall(fl, k, i, start, pages) ==
    IF i > ENTRIES_LEN
    THEN IF k < Len(fl) THEN InsertCall(fl, k + 1, 1, start, pages)
         ELSE [some |-> FALSE, k |-> 0, i |-> 0]
    ELSE IF ~fl[k].entries[i].usable
    THEN [some |-> FALSE, k |-> 0, i |-> 0]
    ELSE IF fl[k].entries[i].start < start
    THEN InsertCall(fl, k, i + 1, start, pages)
    ELSE IF fl[k].entries[i].start = start + pages * PAGE_SIZE
    THEN [some |-> FALSE, k |-> 0, i |-> 0]
    ELSE [some |-> TRUE, k |-> k, i |-> i]

\* The list l without its v-th entry.
DropAt(l, v) == SubSeq(l, 1, v - 1) \o SubSeq(l, v + 1, Len(l))
\* The list l with one page taken from the front of its v-th entry.
OnePageLess(l, v) ==
    IF l[v].pages = 1 THEN DropAt(l, v)
    ELSE [l EXCEPT ![v] = Usable(l[v].start + PAGE_SIZE, l[v].pages - 1)]

\* insert_entry(i, e) on the free list `before` gave `after`: the entries of
\* before and e; when a descriptor page was added, one entry of before has
\* lost the one page that became the descriptor page.
InsertConserves(before, e, after, grown) ==
    IF grown
    THEN \E v \in 1..Len(before) :
            SeqBag(after) = SeqBag(Append(OnePageLess(before, v), e))
    ELSE SeqBag(after) = SeqBag(Append(before, e))

\* The step is a dealloc_pages that calls insert_entry, which returns Ok.
DeallocInserts ==
    /\ ~panicked /\ fpa # << >>
    /\ last'.op = "dealloc_pages" /\ runs' # runs
    /\ InsertCall(fpa, 1, 1, last'.ptr, last'.pages).some
    /\ With(InsertCall(fpa, 1, 1, last'.ptr, last'.pages), LAMBDA c :
           insert_entry(Machine, c.k, c.i,
                        Usable(last'.ptr, last'.pages)).ok)
\* The free list that insert_entry call leaves.
InsertedList ==
    With(InsertCall(fpa, 1, 1, last'.ptr, last'.pages), LAMBDA c :
        insert_entry(Machine, c.k, c.i, Usable(last'.ptr, last'.pages)).m.fpa)

\* The step is an allocate whose alloc_pages finds an exact match and so is
\* one call of remove_entry.
AllocateRemoves ==
    /\ allocs' = allocs + 1 /\ last'.ok /\ ~panicked'
    /\ \E v \in 1..Len(last'.pre) :
          last'.pre[v] = Usable(last'.ptr, last'.pages)

\* C40: insert_entry(i, e) and remove_entry(i) conserve the entries: the
\* Usable entries of all descriptor pages afterwards are those before plus
\* e, respectively minus the entry removed, at every fill level; when
\* insert_entry adds a descriptor page, exactly that one page is taken from
\* the free runs besides.
C40_EntriesConserved ==
    [][/\ DeallocInserts =>
              InsertConserves(FreeList(fpa), Usable(last'.ptr, last'.pages),
                              FreeList(InsertedList),
                              Len(InsertedList) > Len(fpa))
       /\ AllocateRemoves =>
              SeqBag(Append(FreeList(fpa'), Usable(last'.ptr, last'.pages)))
                  = SeqBag(last'.pre)]_vars

-----------------------------------------------------------------------------
(* Failed operations of the ramfs, under SpecRamfs.                          *)

\* C37: when create, link, symlink or mkdir returns an error, the listing
\* of the parent directory, the inode value dst the caller holds and the
\* parent inode are what they were before the call.
C37_ErrorsChangeNothing ==
    (rlast.op \in RamOps /\ rlast.err # "none") =>
        /\ InodeOps_list(get_inode(sb, rlast.parent), blockStore)
               = rlast.before[rlast.parent].list
        /\ rlast.dst = rlast.before[rlast.dst.num].inode
        /\ get_inode(sb, rlast.parent) = rlast.before[rlast.parent].inode

-----------------------------------------------------------------------------
(* The directory cache against the mounted tree, under SpecFs.              *)

\* The inode the names lead to from directory n through the listings, or -1.
RECURSIVE Walk(_, _)
Walk(n, names) ==
    IF names = << >> THEN n
    ELSE LET hits == {i \in 1..Len(Inodes[n].list) :
                         Inodes[n].list[i].name = Head(names)}
         IN  IF hits = {} THEN -1
             ELSE Walk(Inodes[n].list[Min(hits)].inode, Tail(names))
IsName(piece) == piece \notin {<< >>, << "." >>}
\* The inode of the absolute path p, resolved from the mount root, or -1.
Resolve(p) ==
    IF p = << >> \/ p[1] # SEPERATOR THEN -1
    ELSE Walk(0, SelectSeq(Split(Tail(p)), IsName))

\* C36: the DEntry that DirectoryCache::get(p) returns refers to the inode
\* that resolving p component by component from the mount root gives, and a
\* cache key that is the path of an object holds the entry of this object,
\* so that no two objects share a key.
C36_CacheAgreesWithTree ==
    /\ (flast.op = "get" /\ flast.res.ok) =>
           flast.res.entry.inode = Resolve(flast.path)
    /\ \A k \in DOMAIN dirCache :
           Resolve(k) >= 0 => dirCache[k].entry.inode = Resolve(k)

-----------------------------------------------------------------------------
(* The order of the boot steps of kmain, under SpecIrq.                      *)

\* kmain has executed the step s.
Done(s) == \E i \in 1..(mainPc - 1) : i <= Len(Program) /\ Program[i] = s
\* No step of the list has been executed before its predecessor in the list.
InOrder(steps) ==
    \A k \in 1..(Len(steps) - 1) : Done(steps[k + 1]) => Done(steps[k])
InterruptsAfterSetup == intr => (Done("timer_start") /\ Done("com1_enable"))

-----------------------------------------------------------------------------
(* start_timer runs with interrupts disabled; PIT channel 0 counts on its   *)
(* own clock, one tick at any time between two steps of the CPU.             *)

TimeInit == FpaInit

\* LAPIC current counts at the end of the window: the extremes, and the
\* readings around 0xFD70_A3D7, the smallest whose distance to 0xFFFF_FFFF
\* still fits into a u32 when multiplied by 100.
CalReadings ==
    {0, 32768, 64880, 65520, HALF - 1} \X {0, 41942, 41943, HALF - 1}

TimeRest == <<frameVars, fpaVars, heapVars, irqVars, fsVars, ramVars,
              pathVars, lockVars>>

\* time.rs:36-43: the divider, the PIT armed for 100 Hz in mode 0, the LAPIC
\* initial count set to 0xFFFF_FFFF.
CalArm ==
    /\ calPc = "entry"
    /\ pitCount' = PitDivisor(100)
    /\ pitOn' = TRUE
    /\ calPc' = "poll_lo"
    /\ UNCHANGED <<pitLo, lapicCur, loaded, TimeRest>>

\* The PIT counts down by one and wraps after 0.
PitTick ==
    /\ pitOn
    /\ calPc \in {"poll_lo", "poll_hi"}
    /\ pitCount' = (pitCount + PitModulus - 1) % PitModulus
    /\ UNCHANGED <<calPc, pitOn, pitLo, lapicCur, loaded, TimeRest>>

\* get_count: the first read of the channel port.
CalPollLo ==
    /\ calPc = "poll_lo"
    /\ pitLo' = pitCount % PitByte
    /\ calPc' = "poll_hi"
    /\ UNCHANGED <<pitCount, pitOn, lapicCur, loaded, TimeRest>>

\* get_count: the second read, and the test of `while ... != 0`.
CalPollHi ==
    /\ calPc = "poll_hi"
    /\ calPc' = IF get_count(pitCount, pitLo) = 0 THEN "stop" ELSE "poll_lo"
    /\ UNCHANGED <<pitCount, pitOn, pitLo, lapicCur, loaded, TimeRest>>

\* time.rs:49-51: the timer stopped and its current count read.
CalRead ==
    /\ calPc = "stop"
    /\ lapicCur' \in CalReadings
    /\ calPc' = "scale"
    /\ UNCHANGED <<pitCount, pitOn, pitLo, loaded, TimeRest>>

\* time.rs:51-60: the initial count of the periodic timer computed and
\* written, in a build with or without overflow checks.
CalProgram ==
    /\ calPc = "scale"
    /\ \E checks \in BOOLEAN :
          /\ loaded' = initial_count(lapicCur, checks)
          /\ calPc' = IF initial_count(lapicCur, checks).panic
                      THEN "panic" ELSE "periodic"
    /\ UNCHANGED <<pitCount, pitOn, pitLo, lapicCur, TimeRest>>

TimeNext ==
    CalArm \/ PitTick \/ CalPollLo \/ CalPollHi \/ CalRead \/ CalProgram

SpecTime == TimeInit /\ [][TimeNext]_vars

\* The CPU executes its next instruction, and the PIT keeps counting.
SpecTimeFair ==
    /\ SpecTime
    /\ WF_vars(CalArm) /\ WF_vars(CalPollLo) /\ WF_vars(CalPollHi)
    /\ WF_vars(CalRead) /\ WF_vars(CalProgram) /\ WF_vars(PitTick)

\* C33: for every reading c, start_timer loads ((0xFFFF_FFFF - c) * 100)
\* / TICK_FREQ, the product being formed without 32-bit overflow; as 100
\* divides TICK_FREQ, that value is (0xFFFF_FFFF - c) / 10.
C33_InitialCountExact ==
    calPc \in {"periodic", "panic"} =>
        /\ ~loaded.panic
        /\ ~loaded.overflow
        /\ loaded.count = U32_div(U32_sub_from_max(lapicCur), TICK_FREQ \div 100)

\* C34: the busy-wait on PIT0.get_count() ends: once the PIT is armed and
\* counts, start_timer gets to stop the LAPIC timer.
C34_WaitTerminates ==
    (calPc \in {"poll_lo", "poll_hi"}) ~> (calPc = "stop")

====
